---- MODULE Spec2Model ----
(***************************************************************************)
(* Quota ledger, identity linker and session store of the PromptEnhancer   *)
(* backend.  Redis keys of one UTC day are modelled as functions, every    *)
(* HTTP request as a slot of `req` that walks through the awaits of its    *)
(* middleware and handler, one storage round trip per step.                *)
(***************************************************************************)
EXTENDS Integers, Sequences, FiniteSets, TLC

\* ------------------------------------------------------------------------
\* Identities and bounds
\* ------------------------------------------------------------------------
None == "none"
Anons == {"a1", "a2"}
Users == {"u1", "u2"}
Ips == {"ip1"}

\* identities that use the quota ledger in the ledger specifications
LedgerAnons == {"a1"}
LedgerUsers == {"u1"}

\* number of request slots that can be in flight together
NumProcs == 2
Procs == 1..NumProcs
\* the slot used when requests are issued one after another
SeqProcs == {1}

\* the two slots of a race
RaceProcs == {1, 2}
\* the slots that serve the session routes
SessionProcs == {1}

\* requests an address sends before the racing clients stop
LedgerLoad == 12
\* requests an address sends in a burst with every slot in flight
FoldLoad == 2
\* link calls issued per (user, anon) pair and day
MaxLinkCalls == 2

\* the _id values the sessions collection hands out, in this order
SessionIds == {1}
\* enhance requests an address sends while the session routes are exercised
SessionLoad == 1

\* policy constants of the ledger
AnonLimit == 10
UserLimit == 20
IpLimitAnon == 30
IpLimitAuth == 60

\* defaultJobOptions: attempts and backoff delay; the delay of queue.add; the
\* concurrency of the Worker; maxlength of the synopsis strings
Attempts == 3
BackoffDelay == 2000
JobDelay == 5000
Concurrency == 2
MaxLength == 120

Min(x, y) == IF x < y THEN x ELSE y
Max(x, y) == IF x > y THEN x ELSE y

\* ------------------------------------------------------------------------
\* State
\* ------------------------------------------------------------------------
VARIABLES
  ipQuota,      \* enh:ip:<ip>:<day>      (absent key = 0)
  anonQuota,    \* enh:anon:<anon>:<day>
  userQuota,    \* enh:user:<user>:<day>
  linkMarker,   \* set of <<user, anon>> whose link:anon:<user>:<anon>:<day> exists
  expires,      \* EXPIRE commands run on the counter of each address and identity
  sessions,     \* sessions collection: session id -> document (id 0 = no document)
  nextSid,      \* next _id the sessions collection hands out
  prompts,      \* prompts collection, in insertion order
  jobs,         \* synopsis:update queue: jobs added per session id
  queue,        \* synopsis:update queue: the jobs, in the order they were added
  oauth,        \* oauth:state:<state> keys and what became of each state value
  req,          \* request slots: position and locals of each in-flight request
  admitted,     \* history: identity checks answered allowed=true, per identity
  foldCount,    \* history: times the fold transaction ran, per <<user, anon>>
  linkLog,      \* history: results of finished linkAnonQuota calls, per pair
  nth,          \* history: ordinal of the latest anonymous enhance request
  ipRejected    \* history: anonymous identities the IP check has turned away

ledgerVars == <<ipQuota, anonQuota, userQuota, linkMarker, expires>>
storeVars == <<sessions, nextSid, prompts, jobs, queue, oauth>>
histVars == <<admitted, foldCount, linkLog, nth, ipRejected>>
vars == <<ipQuota, anonQuota, userQuota, linkMarker, expires, sessions, nextSid, prompts, jobs,
          queue, oauth, req,
          admitted, foldCount, linkLog, nth, ipRejected>>

Pairs == Users \X Anons

\* a key that an object does not have
Absent == "absent"

\* the paths of synopsisSchema
Fields == {"goal", "tone", "constraints", "audience", "style", "todos"}

\* synopsis: { type: synopsisSchema, default: () => ({}) }
NoSynopsis == [f \in Fields |-> Absent]

\* the result of a query that matches no document
NoDoc == [id |-> 0, userId |-> None, anonId |-> None, title |-> None,
          byAnon |-> None, byUser |-> None,
          synopsis |-> NoSynopsis, synopsisVersion |-> 0]

\* the state values GET /auth/google/init hands out
OAuthStates == {"s1"}
\* a state value that was never handed out: no key, no getOAuthState result
NoState == [present |-> FALSE, issued |-> FALSE, returned |-> 0]

Idle == [pc |-> "idle", route |-> "none", ip |-> None, anonId |-> None,
         userId |-> None, cnt |-> 0, status |-> "none", remaining |-> 0,
         by |-> "none", linked |-> FALSE,
         sid |-> 0, useHistory |-> FALSE, followUp |-> FALSE, autoCreate |-> FALSE,
         doc |-> NoDoc, list |-> {},
         retryAfter |-> None, llm |-> None, enhanced |-> None, token |-> None,
         verdict |-> None, aux |-> {}, args |-> None, ret |-> None,
         cookie |-> None, setCookie |-> None, valid |-> TRUE, lastMessages |-> <<>>,
         context |-> None, contextUsed |-> [lastTurns |-> 0, synopsisChars |-> 0]]

\* nothing stored yet: empty ledger, empty collections, empty histories
Empty ==
  /\ ipQuota = [i \in Ips |-> 0]
  /\ anonQuota = [a \in Anons |-> 0]
  /\ userQuota = [u \in Users |-> 0]
  /\ linkMarker = {}
  /\ expires = [k \in Ips \cup Anons \cup Users |-> 0]
  /\ sessions = [s \in SessionIds |-> NoDoc]
  /\ nextSid = 1
  /\ prompts = <<>>
  /\ jobs = [s \in SessionIds |-> 0]
  /\ queue = <<>>
  /\ oauth = [s \in OAuthStates |-> NoState]
  /\ admitted = [k \in Anons \cup Users |-> 0]
  /\ foldCount = [k \in Pairs |-> 0]
  /\ linkLog = [k \in Pairs |-> <<>>]
  /\ nth = [a \in Anons |-> 0]
  /\ ipRejected = {}

Init == Empty /\ req = [p \in Procs |-> Idle]

\* a function of the program called directly with the arguments in `args`
Called(function, args) ==
  [Idle EXCEPT !.route = function, !.pc = "call", !.args = args]

Free(p) == req[p].pc = "idle"

\* the response has been sent: the slot is free for the next request
Reply(p) ==
  /\ req[p].pc = "done"
  /\ req' = [req EXCEPT ![p] = Idle]
  /\ UNCHANGED <<storeVars, ledgerVars, histVars>>

\* the failure of an auxiliary call, caught and logged by the handler that made
\* the call: req.aux remembers which call it was
Caught(r, call) == [r EXCEPT !.aux = @ \cup {call}]

\* ------------------------------------------------------------------------
\* limitEnhance: checkIpQuota, then checkUserQuota or checkAnonQuota
\* ------------------------------------------------------------------------
\* limitEnhance entered on its own: the request ends when the middleware answers
StartLimit(p, ip, a, u) ==
  /\ Free(p)
  /\ req' = [req EXCEPT ![p] = [Idle EXCEPT !.pc = "ipGet", !.route = "limit",
                                           !.ip = ip, !.anonId = a, !.userId = u]]
  /\ nth' = IF u = None THEN [nth EXCEPT ![a] = Min(@ + 1, AnonLimit + 2)] ELSE nth
  /\ UNCHANGED <<storeVars, ledgerVars, admitted, foldCount, linkLog, ipRejected>>

\* where next() of limitEnhance leads: the POST /enhance handler, or nowhere
AfterCreate(r) ==
  IF r.useHistory /\ r.followUp /\ r.sid # 0 THEN "ctx" ELSE "llm"

AfterLimit(r) ==
  IF r.route # "enhance" THEN "done"
  ELSE IF ~r.valid THEN "zod"
  ELSE IF r.autoCreate /\ r.sid = 0 THEN "autoCreate" ELSE AfterCreate(r)

ipLimit(u) == IF u # None THEN IpLimitAuth ELSE IpLimitAnon

\* IpGet holding every request to the unauthenticated ceiling
IpGetOneCeiling(p) ==
  LET r == req[p]
      count == ipQuota[r.ip]
  IN /\ r.pc = "ipGet"
     /\ IF count >= IpLimitAnon
        THEN /\ req' = [req EXCEPT ![p].pc = "done", ![p].status = "429", ![p].retryAfter = "tomorrow",
                                   ![p].remaining = 0, ![p].by = "ip", ![p].cnt = count]
             /\ ipRejected' = IF r.userId = None THEN ipRejected \cup {r.anonId}
                              ELSE ipRejected
        ELSE /\ req' = [req EXCEPT ![p].pc = "ipExec", ![p].cnt = count]
             /\ UNCHANGED ipRejected
     /\ UNCHANGED <<storeVars, ledgerVars, admitted, foldCount, linkLog, nth>>

\* redis.get(key) and the ceiling test of checkIpQuota
IpGet(p) ==
  LET r == req[p]
      count == ipQuota[r.ip]
  IN /\ r.pc = "ipGet"
     /\ IF count >= ipLimit(r.userId)
        THEN /\ req' = [req EXCEPT ![p].pc = "done", ![p].status = "429", ![p].retryAfter = "tomorrow",
                                   ![p].remaining = 0, ![p].by = "ip", ![p].cnt = count]
             /\ ipRejected' = IF r.userId = None THEN ipRejected \cup {r.anonId}
                              ELSE ipRejected
        ELSE /\ req' = [req EXCEPT ![p].pc = "ipExec", ![p].cnt = count]
             /\ UNCHANGED ipRejected
     /\ UNCHANGED <<storeVars, ledgerVars, admitted, foldCount, linkLog, nth>>

\* redis.multi().incr(key).expire(key, ttl).exec() of checkIpQuota
IpExec(p) ==
  LET r == req[p]
  IN /\ r.pc = "ipExec"
     /\ ipQuota' = [ipQuota EXCEPT ![r.ip] = @ + 1]
     /\ expires' = [expires EXCEPT ![r.ip] = @ + 1]
     /\ req' = [req EXCEPT ![p].pc = IF r.userId # None THEN "userGet" ELSE "anonGet",
                           ![p].remaining = ipLimit(r.userId) - r.cnt - 1]
     /\ UNCHANGED <<storeVars, anonQuota, userQuota, linkMarker, histVars>>

\* AnonGet whose caller answers 429 and then calls next() all the same
AnonGetNoReturn(p) ==
  LET r == req[p]
      count == anonQuota[r.anonId]
  IN /\ r.pc = "anonGet"
     /\ IF count >= AnonLimit
        THEN req' = [req EXCEPT ![p].pc = AfterLimit(r), ![p].status = "429",
                                ![p].retryAfter = "tomorrow",
                                ![p].remaining = 0, ![p].by = "anon", ![p].cnt = count]
        ELSE req' = [req EXCEPT ![p].pc = "anonExec", ![p].cnt = count]
     /\ UNCHANGED <<storeVars, ledgerVars, histVars>>

\* AnonGet with the ceiling test written `count > 10`
AnonGetOffByOne(p) ==
  LET r == req[p]
      count == anonQuota[r.anonId]
  IN /\ r.pc = "anonGet"
     /\ IF count > AnonLimit
        THEN req' = [req EXCEPT ![p].pc = "done", ![p].status = "429", ![p].retryAfter = "tomorrow",
                                ![p].remaining = 0, ![p].by = "anon", ![p].cnt = count]
        ELSE req' = [req EXCEPT ![p].pc = "anonExec", ![p].cnt = count]
     /\ UNCHANGED <<storeVars, ledgerVars, histVars>>

\* redis.get(key) and the ceiling test of checkAnonQuota
AnonGet(p) ==
  LET r == req[p]
      count == anonQuota[r.anonId]
  IN /\ r.pc = "anonGet"
     /\ IF count >= AnonLimit
        THEN req' = [req EXCEPT ![p].pc = "done", ![p].status = "429", ![p].retryAfter = "tomorrow",
                                ![p].remaining = 0, ![p].by = "anon", ![p].cnt = count]
        ELSE req' = [req EXCEPT ![p].pc = "anonExec", ![p].cnt = count]
     /\ UNCHANGED <<storeVars, ledgerVars, histVars>>

\* redis.multi().incr(key).expire(key, ttl).exec() of checkAnonQuota
AnonExec(p) ==
  LET r == req[p]
  IN /\ r.pc = "anonExec"
     /\ anonQuota' = [anonQuota EXCEPT ![r.anonId] = @ + 1]
     /\ expires' = [expires EXCEPT ![r.anonId] = @ + 1]
     /\ req' = [req EXCEPT ![p].pc = AfterLimit(r), ![p].status = "next",
                           ![p].remaining = AnonLimit - r.cnt - 1]
     /\ admitted' = [admitted EXCEPT ![r.anonId] = @ + 1]
     /\ UNCHANGED <<storeVars, ipQuota, userQuota, linkMarker, foldCount, linkLog, nth, ipRejected>>

\* UserGet that renews the counter's expiry when it rejects
UserGetRefreshesExpiry(p) ==
  LET r == req[p]
      count == userQuota[r.userId]
  IN /\ r.pc = "userGet"
     /\ IF count >= UserLimit
        THEN /\ req' = [req EXCEPT ![p].pc = "done", ![p].status = "429", ![p].retryAfter = "tomorrow",
                                   ![p].remaining = 0, ![p].by = "user", ![p].cnt = count]
             /\ expires' = [expires EXCEPT ![r.userId] = @ + 1]
        ELSE /\ req' = [req EXCEPT ![p].pc = "userExec", ![p].cnt = count]
             /\ UNCHANGED expires
     /\ UNCHANGED <<storeVars, ipQuota, anonQuota, userQuota, linkMarker, histVars>>

\* redis.get(key) and the ceiling test of checkUserQuota
UserGet(p) ==
  LET r == req[p]
      count == userQuota[r.userId]
  IN /\ r.pc = "userGet"
     /\ IF count >= UserLimit
        THEN req' = [req EXCEPT ![p].pc = "done", ![p].status = "429", ![p].retryAfter = "tomorrow",
                                ![p].remaining = 0, ![p].by = "user", ![p].cnt = count]
        ELSE req' = [req EXCEPT ![p].pc = "userExec", ![p].cnt = count]
     /\ UNCHANGED <<storeVars, ledgerVars, histVars>>

\* redis.multi().incr(key).expire(key, ttl).exec() of checkUserQuota
UserExec(p) ==
  LET r == req[p]
  IN /\ r.pc = "userExec"
     /\ userQuota' = [userQuota EXCEPT ![r.userId] = @ + 1]
     /\ expires' = [expires EXCEPT ![r.userId] = @ + 1]
     /\ req' = [req EXCEPT ![p].pc = AfterLimit(r), ![p].status = "next",
                           ![p].remaining = UserLimit - r.cnt - 1]
     /\ admitted' = [admitted EXCEPT ![r.userId] = @ + 1]
     /\ UNCHANGED <<storeVars, ipQuota, anonQuota, linkMarker, foldCount, linkLog, nth, ipRejected>>

\* ------------------------------------------------------------------------
\* linkAnonQuota (signup, login, OAuth callback, POST /auth/link-anon)
\* ------------------------------------------------------------------------
LinkCalls(u, a) ==
  Len(linkLog[<<u, a>>])
  + Cardinality({q \in Procs : /\ req[q].route = "link"
                               /\ req[q].pc # "done"
                               /\ req[q].userId = u
                               /\ req[q].anonId = a})

StartLink(p, u, a) ==
  /\ Free(p)
  /\ LinkCalls(u, a) < MaxLinkCalls
  /\ req' = [req EXCEPT ![p] = [Idle EXCEPT !.pc = "linkExists", !.route = "link",
                                           !.anonId = a, !.userId = u]]
  /\ UNCHANGED <<storeVars, ledgerVars, histVars>>

LogLink(r, linked, count) ==
  [linkLog EXCEPT ![<<r.userId, r.anonId>>] =
     Append(@, [linked |-> linked, count |-> count])]

\* LinkExists without the early return on an existing marker
LinkExistsIgnored(p) ==
  /\ req[p].pc = "linkExists"
  /\ req' = [req EXCEPT ![p].pc = "linkGet"]
  /\ UNCHANGED <<storeVars, ledgerVars, histVars>>

\* redis.exists(linkKey)
LinkExists(p) ==
  LET r == req[p]
  IN /\ r.pc = "linkExists"
     /\ IF <<r.userId, r.anonId>> \in linkMarker
        THEN /\ req' = [req EXCEPT ![p].pc = "done", ![p].status = "ok",
                                   ![p].linked = FALSE, ![p].cnt = 0]
             /\ linkLog' = LogLink(r, FALSE, 0)
        ELSE /\ req' = [req EXCEPT ![p].pc = "linkGet"]
             /\ UNCHANGED linkLog
     /\ UNCHANGED <<storeVars, ledgerVars, admitted, foldCount, nth, ipRejected>>

\* LinkGet that marks the pair as linked although there was nothing to link
LinkGetMarksZero(p) ==
  LET r == req[p]
      count == anonQuota[r.anonId]
  IN /\ r.pc = "linkGet"
     /\ IF count = 0
        THEN /\ req' = [req EXCEPT ![p].pc = "done", ![p].status = "ok",
                                   ![p].linked = FALSE, ![p].cnt = 0]
             /\ linkLog' = LogLink(r, FALSE, 0)
             /\ linkMarker' = linkMarker \cup {<<r.userId, r.anonId>>}
        ELSE /\ req' = [req EXCEPT ![p].pc = "linkExec", ![p].cnt = count]
             /\ UNCHANGED <<linkLog, linkMarker>>
     /\ UNCHANGED <<storeVars, ipQuota, anonQuota, userQuota, expires, admitted, foldCount, nth,
                    ipRejected>>

\* redis.get(anonKey) and the zero test
LinkGet(p) ==
  LET r == req[p]
      count == anonQuota[r.anonId]
  IN /\ r.pc = "linkGet"
     /\ IF count = 0
        THEN /\ req' = [req EXCEPT ![p].pc = "done", ![p].status = "ok",
                                   ![p].linked = FALSE, ![p].cnt = 0]
             /\ linkLog' = LogLink(r, FALSE, 0)
        ELSE /\ req' = [req EXCEPT ![p].pc = "linkExec", ![p].cnt = count]
             /\ UNCHANGED linkLog
     /\ UNCHANGED <<storeVars, ledgerVars, admitted, foldCount, nth, ipRejected>>

\* LinkExec whose transaction also deletes the anonymous counter
LinkExecDeletesAnon(p) ==
  LET r == req[p]
  IN /\ r.pc = "linkExec"
     /\ userQuota' = [userQuota EXCEPT ![r.userId] = @ + r.cnt]
     /\ anonQuota' = [anonQuota EXCEPT ![r.anonId] = 0]
     /\ expires' = [expires EXCEPT ![r.userId] = @ + 1, ![r.anonId] = 0]
     /\ linkMarker' = linkMarker \cup {<<r.userId, r.anonId>>}
     /\ req' = [req EXCEPT ![p].pc = "done", ![p].status = "ok", ![p].linked = TRUE]
     /\ foldCount' = [foldCount EXCEPT ![<<r.userId, r.anonId>>] = @ + 1]
     /\ linkLog' = LogLink(r, TRUE, r.cnt)
     /\ UNCHANGED <<storeVars, ipQuota, admitted, nth, ipRejected>>

\* LinkExec whose transaction lacks the setex of the marker
LinkExecNoMarker(p) ==
  LET r == req[p]
  IN /\ r.pc = "linkExec"
     /\ userQuota' = [userQuota EXCEPT ![r.userId] = @ + r.cnt]
     /\ expires' = [expires EXCEPT ![r.userId] = @ + 1]
     /\ req' = [req EXCEPT ![p].pc = "done", ![p].status = "ok", ![p].linked = TRUE]
     /\ foldCount' = [foldCount EXCEPT ![<<r.userId, r.anonId>>] = @ + 1]
     /\ linkLog' = LogLink(r, TRUE, r.cnt)
     /\ UNCHANGED <<storeVars, ipQuota, anonQuota, linkMarker, admitted, nth, ipRejected>>

\* redis.multi().incrby(userKey, count).expire(userKey, ttl).setex(linkKey, ttl, '1').exec()
LinkExec(p) ==
  LET r == req[p]
  IN /\ r.pc = "linkExec"
     /\ userQuota' = [userQuota EXCEPT ![r.userId] = @ + r.cnt]
     /\ expires' = [expires EXCEPT ![r.userId] = @ + 1]
     /\ linkMarker' = linkMarker \cup {<<r.userId, r.anonId>>}
     /\ req' = [req EXCEPT ![p].pc = "done", ![p].status = "ok", ![p].linked = TRUE]
     /\ foldCount' = [foldCount EXCEPT ![<<r.userId, r.anonId>>] = @ + 1]
     /\ linkLog' = LogLink(r, TRUE, r.cnt)
     /\ UNCHANGED <<storeVars, ipQuota, anonQuota, admitted, nth, ipRejected>>

\* a Redis command of linkAnonQuota rejects: linkAnonQuota throws, the catch of
\* signup, login or the OAuth callback logs it and the handler goes on to its
\* success response (status "ok" of a link request is that response)
LinkThrows(p) ==
  LET r == req[p]
  IN /\ r.route = "link"
     /\ r.pc \in {"linkExists", "linkGet", "linkExec"}
     /\ req' = [req EXCEPT ![p] = [Caught(r, "link") EXCEPT !.pc = "done", !.status = "ok",
                                                          !.linked = FALSE, !.cnt = 0]]
     /\ UNCHANGED <<storeVars, ledgerVars, histVars>>

\* req.userId on a route that mounts neither requireAuth nor
\* requireAuthOptional: nothing reads the session token, so it stays undefined
NoAuth(token) == None

\* POST /auth/link-anon, sent with anonymous cookie a and the session token of
\* `token`: the handler up to its call of linkAnonQuota(userId, anonId)
LinkAnon(p, a, token) ==
  LET userId == NoAuth(token)
      r == [Idle EXCEPT !.route = "link-anon", !.anonId = a, !.token = token, !.userId = userId]
  IN /\ Free(p)
     /\ req' = IF userId = None
               THEN [req EXCEPT ![p] = [r EXCEPT !.pc = "done", !.status = "401"]]
               ELSE [req EXCEPT ![p] = [r EXCEPT !.pc = "linkExists", !.route = "link"]]
     /\ UNCHANGED <<storeVars, ledgerVars, histVars>>

\* ------------------------------------------------------------------------
\* Read-only snapshots
\* ------------------------------------------------------------------------
getUserQuotaUsage(u) ==
  [used |-> userQuota[u], limit |-> UserLimit,
   remaining |-> Max(0, UserLimit - userQuota[u])]

getAnonQuotaUsage(a) ==
  [used |-> anonQuota[a], limit |-> AnonLimit,
   remaining |-> Max(0, AnonLimit - anonQuota[a])]

\* getQuotaInfo(req): the snapshot of the requester's own counter
getQuotaInfo(p, a, u) ==
  LET quota == IF u # None THEN getUserQuotaUsage(u) ELSE getAnonQuotaUsage(a)
  IN /\ Free(p)
     /\ req' = [req EXCEPT ![p] = [Idle EXCEPT !.pc = "done", !.route = "usage", !.status = "200",
                                              !.anonId = a, !.userId = u,
                                              !.cnt = quota.used, !.remaining = quota.remaining]]
     /\ UNCHANGED <<storeVars, ledgerVars, histVars>>

\* ------------------------------------------------------------------------
\* Session store: queries of the session routes and of POST /enhance
\* ------------------------------------------------------------------------
\* the query built from the anonymous cookie alone
OwnerQueryAnonOnly(r) == [field |-> "anonId", value |-> r.anonId]

\* "Build query based on authentication": userId when authenticated, else anonId
OwnerQuery(r) ==
  IF r.userId # None THEN [field |-> "userId", value |-> r.userId]
  ELSE [field |-> "anonId", value |-> r.anonId]

\* Session.findOne({ _id: sid, [q.field]: q.value })
findOne(sid, q) ==
  IF sid \in SessionIds /\ sessions[sid].id # 0 /\ sessions[sid][q.field] = q.value
  THEN sessions[sid] ELSE NoDoc

\* Session.find({ [q.field]: q.value })
find(q) == {sessions[s] : s \in {t \in SessionIds : findOne(t, q).id # 0}}

\* new Session({ userId, anonId, title, ... }).save()
NewSession(u, a, t) ==
  [id |-> nextSid, userId |-> u, anonId |-> a, title |-> t, byAnon |-> a, byUser |-> u,
   synopsis |-> NoSynopsis, synopsisVersion |-> 0]

\* Prompt.deleteMany({ sessionId })
WithoutSession(sid) ==
  LET keep(x) == x.sessionId # sid IN SelectSeq(prompts, keep)

\* Prompt.updateMany({ sessionId }, { userId })
GivenTo(sid, u) ==
  [i \in 1..Len(prompts) |->
     IF prompts[i].sessionId = sid THEN [prompts[i] EXCEPT !.userId = u] ELSE prompts[i]]

\* default page of Prompt.getUserHistory
HistoryLimit == 50

\* Prompt.getUserHistory(userId): find({ userId }).sort({ createdAt: -1 }).limit(50)
getUserHistory(u) ==
  LET mine == {i \in 1..Len(prompts) : prompts[i].userId = u}
  IN {i \in mine : Cardinality({j \in mine : j > i}) < HistoryLimit}

NumPrompts(sid) == Cardinality({i \in 1..Len(prompts) : prompts[i].sessionId = sid})

Answer(p, r, status) == [req EXCEPT ![p] = [r EXCEPT !.pc = "done", !.status = status]]

\* a request that carries the pe_anon_id cookie a: the anonId middleware takes
\* req.anonId from the cookie
Arrive(route, a, u, sid) ==
  [Idle EXCEPT !.route = route, !.anonId = a, !.cookie = a, !.userId = u, !.sid = sid]

\* a request that carries no pe_anon_id cookie: req.anonId = uuidv4()
ArriveNoCookie(route, uuid, u, sid) ==
  [Idle EXCEPT !.route = route, !.anonId = uuid, !.cookie = None, !.userId = u, !.sid = sid]

\* POST /session for the request r
CreateSessionFor(p, r) ==
  LET session == NewSession(r.userId, r.anonId, None)
  IN /\ Free(p)
     /\ nextSid \in SessionIds
     /\ sessions' = [sessions EXCEPT ![nextSid] = session]
     /\ nextSid' = nextSid + 1
     /\ req' = Answer(p, [r EXCEPT !.sid = nextSid, !.doc = session], "201")
     /\ UNCHANGED <<prompts, jobs, queue, oauth, ledgerVars, histVars>>

\* POST /session
CreateSession(p, a, u) == CreateSessionFor(p, Arrive("create", a, u, 0))

\* GET /session
ListSessions(p, a, u) ==
  /\ Free(p)
  /\ LET r == Arrive("list", a, u, 0)
     IN req' = Answer(p, [r EXCEPT !.list = find(OwnerQuery(r))], "200")
  /\ UNCHANGED <<storeVars, ledgerVars, histVars>>

\* GetSession telling a session of somebody else from a session that is not there
GetSessionForbids(p, sid, a, u) ==
  /\ Free(p)
  /\ LET r == Arrive("get", a, u, sid)
         session == findOne(sid, OwnerQuery(r))
     IN req' = IF session.id # 0
               THEN [req EXCEPT ![p] = [r EXCEPT !.pc = "getPrompts", !.doc = session]]
               ELSE IF sid \in SessionIds /\ sessions[sid].id # 0 THEN Answer(p, r, "403")
               ELSE Answer(p, r, "404")
  /\ UNCHANGED <<storeVars, ledgerVars, histVars>>

\* GET /session/:id, up to Session.findOne(query)
GetSession(p, sid, a, u) ==
  /\ Free(p)
  /\ LET r == Arrive("get", a, u, sid)
         session == findOne(sid, OwnerQuery(r))
     IN req' = IF session.id = 0 THEN Answer(p, r, "404")
               ELSE [req EXCEPT ![p] = [r EXCEPT !.pc = "getPrompts", !.doc = session]]
  /\ UNCHANGED <<storeVars, ledgerVars, histVars>>

\* GET /session/:id, Prompt.find({ sessionId }) and the response
GetPrompts(p) ==
  LET r == req[p]
  IN /\ r.pc = "getPrompts"
     /\ req' = Answer(p, [r EXCEPT !.cnt = NumPrompts(r.sid)], "200")
     /\ UNCHANGED <<storeVars, ledgerVars, histVars>>

\* PUT /session/:id: Session.findOneAndUpdate(query, { title, lastMessageAt }, { new: true })
UpdateSession(p, sid, a, u, title) ==
  /\ Free(p)
  /\ LET r == Arrive("update", a, u, sid)
         session == findOne(sid, OwnerQuery(r))
     IN IF session.id = 0
        THEN req' = Answer(p, r, "404") /\ UNCHANGED sessions
        ELSE /\ sessions' = [sessions EXCEPT ![sid].title = title]
             /\ req' = Answer(p, [r EXCEPT !.doc = [session EXCEPT !.title = title]], "200")
  /\ UNCHANGED <<nextSid, prompts, jobs, queue, oauth, ledgerVars, histVars>>

\* DELETE /session/:id: both operations of the Promise.all are now pending
StartDelete(p, sid, a, u) ==
  /\ Free(p)
  /\ req' = [req EXCEPT ![p] = [Arrive("delete", a, u, sid) EXCEPT !.pc = "delBoth"]]
  /\ UNCHANGED <<storeVars, ledgerVars, histVars>>

DeleteAnswer(r) == IF r.doc.id = 0 THEN "404" ELSE "200"

\* Session.findOneAndDelete(query)
DeleteFindOne(p) ==
  LET r == req[p]
      session == findOne(r.sid, OwnerQuery(r))
      r2 == [r EXCEPT !.doc = session]
  IN /\ r.pc \in {"delBoth", "delSession"}
     /\ sessions' = IF session.id = 0 THEN sessions ELSE [sessions EXCEPT ![r.sid] = NoDoc]
     /\ req' = IF r.pc = "delBoth" THEN [req EXCEPT ![p] = [r2 EXCEPT !.pc = "delPrompts"]]
               ELSE Answer(p, r2, DeleteAnswer(r2))
     /\ UNCHANGED <<nextSid, prompts, jobs, queue, oauth, ledgerVars, histVars>>

\* Prompt.deleteMany({ sessionId })
DeletePrompts(p) ==
  LET r == req[p]
      r2 == [r EXCEPT !.cnt = NumPrompts(r.sid)]
  IN /\ r.pc \in {"delBoth", "delPrompts"}
     /\ prompts' = WithoutSession(r.sid)
     /\ req' = IF r.pc = "delBoth" THEN [req EXCEPT ![p] = [r2 EXCEPT !.pc = "delSession"]]
               ELSE Answer(p, r2, DeleteAnswer(r2))
     /\ UNCHANGED <<sessions, nextSid, jobs, queue, oauth, ledgerVars, histVars>>

\* MergeSession looking the session up by its id alone
MergeSessionAnyAnon(p, sid, a, u) ==
  /\ Free(p)
  /\ LET r == Arrive("merge", a, u, sid)
         session == IF sid \in SessionIds THEN sessions[sid] ELSE NoDoc
     IN req' = IF u = None THEN Answer(p, r, "401")
               ELSE IF session.id = 0 THEN Answer(p, r, "404")
               ELSE [req EXCEPT ![p] = [r EXCEPT !.pc = "mergeSave", !.doc = session]]
  /\ UNCHANGED <<storeVars, ledgerVars, histVars>>

\* POST /session/:id/merge: requireAuth, then Session.findOne({ _id, anonId })
MergeSession(p, sid, a, u) ==
  /\ Free(p)
  /\ LET r == Arrive("merge", a, u, sid)
         session == findOne(sid, [field |-> "anonId", value |-> a])
     IN req' = IF u = None THEN Answer(p, r, "401")
               ELSE IF session.id = 0 THEN Answer(p, r, "404")
               ELSE [req EXCEPT ![p] = [r EXCEPT !.pc = "mergeSave", !.doc = session]]
  /\ UNCHANGED <<storeVars, ledgerVars, histVars>>

\* session.userId = userId; session.anonId = undefined; await session.save()
MergeSave(p) ==
  LET r == req[p]
  IN /\ r.pc = "mergeSave"
     /\ IF sessions[r.sid].id = 0
        THEN req' = Answer(p, r, "500") /\ UNCHANGED sessions
        ELSE /\ sessions' = [sessions EXCEPT ![r.sid].userId = r.userId,
                                             ![r.sid].anonId = None]
             /\ req' = [req EXCEPT ![p].pc = "mergePrompts",
                                   ![p].doc = [r.doc EXCEPT !.userId = r.userId, !.anonId = None]]
     /\ UNCHANGED <<nextSid, prompts, jobs, queue, oauth, ledgerVars, histVars>>

\* MergePrompts without the Prompt.updateMany
MergePromptsSkipped(p) ==
  LET r == req[p]
  IN /\ r.pc = "mergePrompts"
     /\ req' = Answer(p, r, "200")
     /\ UNCHANGED <<storeVars, ledgerVars, histVars>>

\* Prompt.updateMany({ sessionId }, { userId, anonId: undefined })
MergePrompts(p) ==
  LET r == req[p]
  IN /\ r.pc = "mergePrompts"
     /\ prompts' = GivenTo(r.sid, r.userId)
     /\ req' = Answer(p, r, "200")
     /\ UNCHANGED <<sessions, nextSid, jobs, queue, oauth, ledgerVars, histVars>>

\* ------------------------------------------------------------------------
\* Google OAuth: the state parameter
\* ------------------------------------------------------------------------
\* GET /auth/google/init: storeOAuthState(state, { codeVerifier, redirectTo })
\* under a state value drawn for this request, then the redirect to Google
OAuthInit(p, state) ==
  /\ Free(p)
  /\ ~oauth[state].issued
  /\ oauth' = [oauth EXCEPT ![state] = [present |-> TRUE, issued |-> TRUE, returned |-> 0]]
  /\ req' = Answer(p, [Idle EXCEPT !.route = "init", !.args = state], "302")
  /\ UNCHANGED <<sessions, nextSid, prompts, jobs, queue, ledgerVars, histVars>>

\* the 600 seconds of the state key are over
OAuthExpire(state) ==
  /\ oauth[state].present
  /\ oauth' = [oauth EXCEPT ![state].present = FALSE]
  /\ UNCHANGED <<sessions, nextSid, prompts, jobs, queue, req, ledgerVars, histVars>>

\* GET /auth/google/callback?code=...&state=...
StartCallback(p, state) ==
  /\ Free(p)
  /\ req' = [req EXCEPT ![p] = [Idle EXCEPT !.route = "callback", !.pc = "oauthGet",
                                           !.args = state]]
  /\ UNCHANGED <<storeVars, ledgerVars, histVars>>

\* getOAuthState: redis.get(key) and `if (!data) return null`; the callback
\* answers null with the invalid_state redirect
OAuthGet(p) ==
  LET r == req[p]
  IN /\ r.pc = "oauthGet"
     /\ req' = IF oauth[r.args].present
               THEN [req EXCEPT ![p].pc = "oauthDel", ![p].ret = "data"]
               ELSE Answer(p, r, "invalid_state")
     /\ UNCHANGED <<storeVars, ledgerVars, histVars>>

\* getOAuthState: redis.del(key) and `return JSON.parse(data)`
OAuthDel(p) ==
  LET r == req[p]
  IN /\ r.pc = "oauthDel"
     /\ oauth' = [oauth EXCEPT ![r.args].present = FALSE, ![r.args].returned = @ + 1]
     /\ req' = [req EXCEPT ![p].pc = "exchange"]
     /\ UNCHANGED <<sessions, nextSid, prompts, jobs, queue, ledgerVars, histVars>>

\* the rest of the callback: the code is exchanged and the ID token verified,
\* or one of the two fails and the outer catch redirects with an error
Exchanges == {"success", "oauth_error"}
ExchangeCode(p, outcome) ==
  LET r == req[p]
  IN /\ r.pc = "exchange"
     /\ req' = Answer(p, r, outcome)
     /\ UNCHANGED <<storeVars, ledgerVars, histVars>>

\* ------------------------------------------------------------------------
\* Context builder
\* ------------------------------------------------------------------------
\* parts.join(sep)
RECURSIVE Join(_, _)
Join(parts, sep) ==
  IF parts = <<>> THEN ""
  ELSE IF Len(parts) = 1 THEN parts[1]
  ELSE parts[1] \o sep \o Join(Tail(parts), sep)

\* parts.push(`${label}: ${value}`) under `if (value)`: an unset field and
\* the empty string are both falsy
Push(parts, label, value) ==
  IF value # "" THEN Append(parts, label \o ": " \o value) ELSE parts

\* synopsis.todos.join(', ')
JoinedTodos(synopsis) == Join(synopsis.todos, ", ")

synopsisParts(synopsis) ==
  LET goal == Push(<<>>, "Goal", synopsis.goal)
      tone == Push(goal, "Tone", synopsis.tone)
      constraints == Push(tone, "Constraints", synopsis.constraints)
      audience == Push(constraints, "Audience", synopsis.audience)
      style == Push(audience, "Style", synopsis.style)
  IN IF Len(synopsis.todos) > 0
     THEN Append(style, "TODOs: " \o JoinedTodos(synopsis))
     ELSE style

\* synopsisChars: the length of every value that was pushed
synopsisChars(synopsis) ==
  Len(synopsis.goal) + Len(synopsis.tone) + Len(synopsis.constraints)
  + Len(synopsis.audience) + Len(synopsis.style)
  + (IF Len(synopsis.todos) > 0 THEN Len(JoinedTodos(synopsis)) ELSE 0)

\* lastMessages.slice(-6)
TrailingTurns == 6
recentMessages(lastMessages) ==
  SubSeq(lastMessages, Max(1, Len(lastMessages) - TrailingTurns + 1), Len(lastMessages))

\* recentMessages.map(msg => `${msg.role}: ${msg.content}`)
RECURSIVE messageLines(_)
messageLines(messages) ==
  IF messages = <<>> THEN <<>>
  ELSE <<Head(messages).role \o ": " \o Head(messages).content>> \o messageLines(Tail(messages))

\* contextParts.join('\n\n'): the context before the clamp
Rendered(synopsis, lastMessages) ==
  LET parts == synopsisParts(synopsis)
      recent == recentMessages(lastMessages)
      session == IF Len(parts) > 0 THEN <<"Session Context:\n" \o Join(parts, "\n")>> ELSE <<>>
      conversation == IF Len(recent) > 0
                      THEN <<"Recent conversation:\n" \o Join(messageLines(recent), "\n")>>
                      ELSE <<>>
  IN Join(session \o conversation, "\n\n")

maxContextLength == 2000
Marker == "..."

\* Clamp cutting one character later
ClampLate(context) ==
  IF Len(context) > maxContextLength
  THEN SubSeq(context, 1, maxContextLength + 1) \o Marker
  ELSE context

\* "Token budget clamp": context.substring(0, maxContextLength) + '...'
Clamp(context) ==
  IF Len(context) > maxContextLength
  THEN SubSeq(context, 1, maxContextLength) \o Marker
  ELSE context

\* buildContext counting the turns it was given instead of the turns it rendered
buildContextCountsAll(synopsis, lastMessages) ==
  [context |-> Clamp(Rendered(synopsis, lastMessages)),
   contextUsed |-> [lastTurns |-> Len(lastMessages),
                    synopsisChars |-> synopsisChars(synopsis)]]

buildContext(synopsis, lastMessages) ==
  [context |-> Clamp(Rendered(synopsis, lastMessages)),
   contextUsed |-> [lastTurns |-> Len(recentMessages(lastMessages)),
                    synopsisChars |-> synopsisChars(synopsis)]]

\* buildContext(session.synopsis, lastMessages || []) called by POST /enhance
CallBuildContext(p) ==
  LET r == req[p]
  IN /\ r.route = "buildContext" /\ r.pc = "call"
     /\ req' = [req EXCEPT ![p].pc = "done",
                           ![p].ret = buildContext(r.args.synopsis, r.args.lastMessages)]
     /\ UNCHANGED <<storeVars, ledgerVars, histVars>>

\* what the paths of a stored synopsis read as: an unset string path is
\* undefined, which `if (synopsis.goal)` takes like the empty string; todos is an
\* array, empty unless set
Text(value) == IF value = Absent THEN "" ELSE value
Hydrated(stored) ==
  [goal |-> Text(stored.goal), tone |-> Text(stored.tone),
   constraints |-> Text(stored.constraints), audience |-> Text(stored.audience),
   style |-> Text(stored.style),
   todos |-> IF stored.todos = Absent THEN <<>> ELSE stored.todos]

\* ------------------------------------------------------------------------
\* POST /enhance: limitEnhance, then the handler
\* ------------------------------------------------------------------------
\* the request r enters limitEnhance from address ip; body is what it carries:
\* useHistory, autoCreate (autoCreateSession) and followUp, the answer that
\* classifyInput gives for its prompt
StartEnhanceFor(p, r, ip, body) ==
  /\ Free(p)
  /\ req' = [req EXCEPT ![p] = [r EXCEPT !.pc = "ipGet", !.ip = ip,
                                         !.useHistory = body.useHistory,
                                         !.followUp = body.followUp,
                                         !.autoCreate = body.autoCreate]]
  /\ nth' = IF r.userId = None THEN [nth EXCEPT ![r.anonId] = Min(@ + 1, AnonLimit + 2)] ELSE nth
  /\ UNCHANGED <<storeVars, ledgerVars, admitted, foldCount, linkLog, ipRejected>>

StartEnhance(p, ip, a, u, sid, useHistory, followUp, autoCreate) ==
  StartEnhanceFor(p, Arrive("enhance", a, u, sid), ip,
                  [useHistory |-> useHistory, followUp |-> followUp, autoCreate |-> autoCreate])

\* ZodRejects giving back the increments limitEnhance has made for the request
ZodRejectsRollsBack(p) ==
  LET r == req[p]
  IN /\ r.pc = "zod"
     /\ req' = Answer(p, r, "400")
     /\ ipQuota' = [ipQuota EXCEPT ![r.ip] = @ - 1]
     /\ anonQuota' = IF r.userId = None THEN [anonQuota EXCEPT ![r.anonId] = @ - 1] ELSE anonQuota
     /\ userQuota' = IF r.userId # None THEN [userQuota EXCEPT ![r.userId] = @ - 1] ELSE userQuota
     /\ UNCHANGED <<storeVars, linkMarker, expires, histVars>>

\* zodValidate(schemas.enhance): schema.parse throws a ZodError, the middleware
\* answers 400 and the handler is not entered
ZodRejects(p) ==
  LET r == req[p]
  IN /\ r.pc = "zod"
     /\ req' = Answer(p, r, "400")
     /\ UNCHANGED <<storeVars, ledgerVars, histVars>>

\* Session.createSession(userId, undefined, anonId); a failure is logged and swallowed
AutoCreate(p) ==
  LET r == req[p]
  IN /\ r.pc = "autoCreate"
     /\ \/ /\ nextSid \in SessionIds
           /\ sessions' = [sessions EXCEPT ![nextSid] = NewSession(r.userId, r.anonId, None)]
           /\ nextSid' = nextSid + 1
           /\ req' = [req EXCEPT ![p] = [r EXCEPT !.sid = nextSid,
                                                  !.pc = AfterCreate([r EXCEPT !.sid = nextSid])]]
        \/ /\ req' = [req EXCEPT ![p] = [Caught(r, "create") EXCEPT !.pc = AfterCreate(r)]]
           /\ UNCHANGED <<sessions, nextSid>>
     /\ UNCHANGED <<prompts, jobs, queue, oauth, ledgerVars, histVars>>

\* ContextLookup with a query on the _id alone
ContextLookupAnyOwner(p) ==
  LET r == req[p]
      session == IF r.sid \in SessionIds THEN sessions[r.sid] ELSE NoDoc
      contextResult == buildContext(Hydrated(session.synopsis), r.lastMessages)
  IN /\ r.pc = "ctx"
     /\ req' = IF session.id # 0
               THEN [req EXCEPT ![p].pc = "llm", ![p].doc = session,
                                ![p].context = contextResult.context,
                                ![p].contextUsed = contextResult.contextUsed]
               ELSE [req EXCEPT ![p].pc = "llm", ![p].doc = session]
     /\ UNCHANGED <<storeVars, ledgerVars, histVars>>

\* "Build context if needed": Session.findOne(query)
ContextLookup(p) ==
  LET r == req[p]
      session == findOne(r.sid, OwnerQuery(r))
      contextResult == buildContext(Hydrated(session.synopsis), r.lastMessages)
  IN /\ r.pc = "ctx"
     /\ req' = IF session.id # 0
               THEN [req EXCEPT ![p].pc = "llm", ![p].doc = session,
                                ![p].context = contextResult.context,
                                ![p].contextUsed = contextResult.contextUsed]
               ELSE [req EXCEPT ![p].pc = "llm", ![p].doc = session]
     /\ UNCHANGED <<storeVars, ledgerVars, histVars>>

\* ContextFails with a failure that reaches the outer catch of the handler
ContextFailsFatal(p) ==
  LET r == req[p]
  IN /\ r.pc = "ctx"
     /\ req' = Answer(p, Caught(r, "ctx"), "500")
     /\ UNCHANGED <<storeVars, ledgerVars, histVars>>

\* Session.findOne(query) rejects: the catch logs it, session stays null
ContextFails(p) ==
  LET r == req[p]
  IN /\ r.pc = "ctx"
     /\ req' = [req EXCEPT ![p] = [Caught(r, "ctx") EXCEPT !.pc = "llm"]]
     /\ UNCHANGED <<storeVars, ledgerVars, histVars>>

\* what the enhancement service does with a call: it answers with text, it
\* answers with a completion that has no content, or the call throws
Outcomes == {"content", "empty", "throws"}

\* enhancePrompt(prompt, context, lastMessages):
\*   completion.choices[0]?.message?.content?.trim() || originalPrompt,
\* or `throw new Error('Failed to enhance prompt')`, which the outer catch answers
CallEnhance(p, outcome) ==
  LET r == req[p]
      enhancedPrompt == IF outcome = "content" THEN "enhanced" ELSE "original"
  IN /\ r.pc = "llm"
     /\ req' = IF outcome = "throws" THEN Answer(p, [r EXCEPT !.llm = outcome], "500")
               ELSE [req EXCEPT ![p].pc = "verify", ![p].llm = outcome,
                                ![p].enhanced = enhancedPrompt]
     /\ UNCHANGED <<storeVars, ledgerVars, histVars>>

\* verifyPrompt finds the text valid, or patchPrompt rewrites it, or patchPrompt
\* fails or comes back empty and the text stays as it was
Verdicts == {"valid", "patched", "unpatched"}

\* VerifyAndPatch with a repair pass whose failure reaches the outer catch
VerifyAndPatchFatal(p, verdict) ==
  LET r == req[p]
  IN /\ r.pc = "verify"
     /\ req' = IF verdict = "unpatched" THEN Answer(p, [r EXCEPT !.verdict = verdict], "500")
               ELSE [req EXCEPT ![p].pc = "persist", ![p].verdict = verdict,
                                ![p].enhanced = IF verdict = "patched" THEN "patched"
                                                ELSE r.enhanced]
     /\ UNCHANGED <<storeVars, ledgerVars, histVars>>

\* verifyPrompt(enhancement.enhancedPrompt) and, when invalid, patchPrompt
VerifyAndPatch(p, verdict) ==
  LET r == req[p]
  IN /\ r.pc = "verify"
     /\ req' = [req EXCEPT ![p].pc = "persist", ![p].verdict = verdict,
                           ![p].enhanced = IF verdict = "patched" THEN "patched" ELSE r.enhanced]
     /\ UNCHANGED <<storeVars, ledgerVars, histVars>>

\* "Set anonymous ID cookie only if user is anonymous and this is their first
\* usage": setAnonIdCookie(res, anonId) when there is no user and no cookie came
Anonymous(r) ==
  IF r.userId = None /\ r.anonId # None /\ r.cookie = None
  THEN [r EXCEPT !.setCookie = r.anonId] ELSE r

\* Prompt.createPrompt({ userId, sessionId: finalSessionId, ... })
Persist(p) ==
  LET r == req[p]
  IN /\ r.pc = "persist"
     /\ prompts' = Append(prompts, [sessionId |-> r.sid, userId |-> r.userId,
                                    enhanced |-> r.enhanced,
                                    byAnon |-> r.anonId, byUser |-> r.userId])
     /\ req' = IF r.followUp /\ r.sid # 0 /\ r.doc.id # 0
               THEN [req EXCEPT ![p] = [Anonymous(r) EXCEPT !.pc = "enqueue"]]
               ELSE Answer(p, Anonymous(r), "200")
     /\ UNCHANGED <<sessions, nextSid, jobs, queue, oauth, ledgerVars, histVars>>

\* queue.add('update', { sessionId, deltaTurns, timestamp }, { delay: 5000 }):
\* the job starts delayed, with no attempt made
NewJob(sessionId) ==
  [sessionId |-> sessionId, state |-> "delayed", attemptsMade |-> 0, delay |-> JobDelay,
   session |-> NoDoc, newSynopsis |-> NoSynopsis]

\* enqueueSynopsisUpdate(finalSessionId, lastMessages) and the response
Enqueue(p) ==
  LET r == req[p]
  IN /\ r.pc = "enqueue"
     /\ jobs' = [jobs EXCEPT ![r.sid] = @ + 1]
     /\ queue' = Append(queue, NewJob(r.sid))
     /\ req' = Answer(p, r, "200")
     /\ UNCHANGED <<sessions, nextSid, prompts, oauth, ledgerVars, histVars>>

\* queue.add rejects or the import fails: logged, the response is still sent
EnqueueFails(p) ==
  LET r == req[p]
  IN /\ r.pc = "enqueue"
     /\ req' = Answer(p, Caught(r, "enqueue"), "200")
     /\ UNCHANGED <<storeVars, ledgerVars, histVars>>

\* ------------------------------------------------------------------------
\* Session model: the synopsis
\* ------------------------------------------------------------------------
\* `...this.synopsis`: spread copies the own enumerable properties of its
\* operand. this.synopsis is the hydrated subdocument of the synopsisSchema
\* path; its own properties are the document internals ($__, _doc, $isNew),
\* while goal, tone, ... are accessors on the prototype, so none of them is
\* copied.
OwnEnumerable(subdoc) == [f \in Fields |-> Absent]

\* { ...a, ...b }: the keys of b win over the keys of a
Spread(a, b) == [f \in Fields |-> IF b[f] # Absent THEN b[f] ELSE a[f]]

\* assignment to the synopsis path casts the object to the subdocument schema:
\* paths of the schema are kept, every other key is dropped (strict mode)
CastSynopsis(obj) == [f \in Fields |-> obj[f]]

\* sessionSchema.methods.updateSynopsis
updateSynopsis(session, newSynopsis) ==
  [synopsis |-> CastSynopsis(Spread(OwnEnumerable(session.synopsis), newSynopsis)),
   synopsisVersion |-> session.synopsisVersion + 1,
   lastMessageAt |-> "now"]

\* session.updateSynopsis(newSynopsis) called by the synopsis worker
CallUpdateSynopsis(p) ==
  LET r == req[p]
  IN /\ r.route = "updateSynopsis" /\ r.pc = "call"
     /\ req' = [req EXCEPT ![p].pc = "done",
                           ![p].ret = updateSynopsis(r.args.session, r.args.newSynopsis)]
     /\ UNCHANGED <<storeVars, ledgerVars, histVars>>

\* ------------------------------------------------------------------------
\* dayKey: day keys and the TTL to midnight. A Date is its time value, kept as
\* the days since the epoch and the milliseconds into that UTC day
\* ------------------------------------------------------------------------
Digits == "0123456789"

\* String(n) for a natural number n
RECURSIVE Str(_)
Str(n) ==
  IF n < 10 THEN SubSeq(Digits, n + 1, n + 1)
  ELSE Str(n \div 10) \o SubSeq(Digits, (n % 10) + 1, (n % 10) + 1)

MsPerDay == 86400000

\* date.getUTCFullYear(), getUTCMonth() + 1 and getUTCDate(): the proleptic
\* Gregorian date of the day number
Civil(date) ==
  LET z == date.day + 719468
      era == z \div 146097
      doe == z - era * 146097
      yoe == (doe - doe \div 1460 + doe \div 36524 - doe \div 146096) \div 365
      doy == doe - (365 * yoe + yoe \div 4 - yoe \div 100)
      mp == (5 * doy + 2) \div 153
      month == IF mp < 10 THEN mp + 3 ELSE mp - 9
  IN [year |-> yoe + era * 400 + (IF month <= 2 THEN 1 ELSE 0),
      month |-> month,
      day |-> doy - (153 * mp + 2) \div 5 + 1]

\* String(n).padStart(2, '0')
Pad2(n) == IF n < 10 THEN "0" \o Str(n) ELSE Str(n)

\* getDayKey keeping the year and the month only
getDayKeyMonthly(date) ==
  LET civil == Civil(date) IN Str(civil.year) \o Pad2(civil.month)

\* getDayKey: `${year}${month}${day}`
getDayKey(date) ==
  LET civil == Civil(date) IN Str(civil.year) \o Pad2(civil.month) \o Pad2(civil.day)

getAnonQuotaKey(anonId, date) == "enh:anon:" \o anonId \o ":" \o getDayKey(date)

\* midnight.setUTCHours(24, 0, 0, 0): hour 24 is 00:00:00.000 of the next day
NextMidnight(date) == [day |-> date.day + 1, ms |-> 0]

\* a.getTime() < b.getTime()
Earlier(a, b) == a.day < b.day \/ (a.day = b.day /\ a.ms < b.ms)

\* a.getTime() - b.getTime()
MsBetween(a, b) == (a.day - b.day) * MsPerDay + (a.ms - b.ms)

\* getSecondsUntilMidnight: Math.floor((midnight.getTime() - now) / 1000)
getSecondsUntilMidnight(date) == MsBetween(NextMidnight(date), date) \div 1000

\* the instant `seconds` after date
After(date, seconds) ==
  LET ms == date.ms + seconds * 1000
  IN [day |-> date.day + ms \div MsPerDay, ms |-> ms % MsPerDay]

\* Redis as a set of entries [key, value, expireAt]; an entry is gone once its
\* expiry has come
Live(redis, date) == {e \in redis : Earlier(date, e.expireAt)}

\* redis.get(key) and `current ? parseInt(current, 10) : 0`
Count(redis, key, date) ==
  LET found == {e \in Live(redis, date) : e.key = key}
  IN IF found = {} THEN 0 ELSE (CHOOSE e \in found : TRUE).value

\* redis.multi().incr(key).expire(key, ttl).exec(): EXPIRE with a timeout that
\* is not positive deletes the key
IncrExpire(redis, key, ttl, date) ==
  LET others == {e \in Live(redis, date) : e.key # key}
  IN IF ttl <= 0 THEN others
     ELSE others \cup {[key |-> key, value |-> Count(redis, key, date) + 1,
                         expireAt |-> After(date, ttl)]}

\* checkAnonQuota(anonId) run at instant `date` against `redis`, its commands
\* not interleaved with another request's
checkAnonQuota(redis, anonId, date) ==
  LET key == getAnonQuotaKey(anonId, date)
      ttl == getSecondsUntilMidnight(date)
      count == Count(redis, key, date)
  IN IF count >= AnonLimit
     THEN [allowed |-> FALSE, remaining |-> 0, redis |-> Live(redis, date), key |-> key,
           written |-> FALSE, ttl |-> ttl]
     ELSE [allowed |-> TRUE, remaining |-> AnonLimit - count - 1,
           redis |-> IncrExpire(redis, key, ttl, date), key |-> key,
           written |-> TRUE, ttl |-> ttl]

CallCheckAnonQuota(p) ==
  LET r == req[p]
  IN /\ r.route = "checkAnonQuota" /\ r.pc = "call"
     /\ req' = [req EXCEPT ![p].pc = "done",
                           ![p].ret = checkAnonQuota(r.args.redis, r.args.anonId, r.args.date)]
     /\ UNCHANGED <<storeVars, ledgerVars, histVars>>

\* the next request of the same identity arrives at instant `date`, not before
\* the last one; args.last keeps when the last one ran and what it was told
\* (key None: there was no request before)
NextCheckAnonQuota(p, date) ==
  LET r == req[p]
  IN /\ r.route = "checkAnonQuota" /\ r.pc = "done"
     /\ ~Earlier(date, r.args.date)
     /\ req' = [req EXCEPT ![p] =
                  Called("checkAnonQuota",
                         [redis |-> r.ret.redis, anonId |-> r.args.anonId, date |-> date,
                          last |-> [date |-> r.args.date, allowed |-> r.ret.allowed,
                                    key |-> r.ret.key]])]
     /\ UNCHANGED <<storeVars, ledgerVars, histVars>>

\* ------------------------------------------------------------------------
\* Input classifier
\* ------------------------------------------------------------------------
UpperCase == "ABCDEFGHIJKLMNOPQRSTUVWXYZ"
LowerCase == "abcdefghijklmnopqrstuvwxyz"

\* the case folding of the i flag, on one character
Fold(c) ==
  IF \E i \in 1..Len(UpperCase) : SubSeq(UpperCase, i, i) = c
  THEN LET i == CHOOSE j \in 1..Len(UpperCase) : SubSeq(UpperCase, j, j) = c
       IN SubSeq(LowerCase, i, i)
  ELSE c

RECURSIVE FoldAll(_)
FoldAll(text) ==
  IF text = "" THEN "" ELSE Fold(SubSeq(text, 1, 1)) \o FoldAll(SubSeq(text, 2, Len(text)))

\* /^(a|b|...)/i: the text starts with one of the alternatives, whatever the case
Prefix(alternatives) == [anchor |-> "^", alternatives |-> alternatives]
\* /\?$/: the text ends with the alternative; $ without the m flag is the end
\* of the input only
Suffix(alternatives) == [anchor |-> "$", alternatives |-> alternatives]

followUpMarkers ==
  << Prefix({"continue", "keep going", "more", "next", "and then", "also", "additionally",
             "furthermore", "moreover"}),
     Prefix({"what about", "how about", "can you", "could you", "would you", "please"}),
     Prefix({"but", "however", "though", "although", "except", "unless"}),
     Prefix({"yes", "no", "ok", "okay", "sure", "absolutely", "definitely"}),
     Prefix({"thanks", "thank you", "thx"}),
     Suffix({"?"}) >>

\* marker.test(prompt)
test(marker, prompt) ==
  \E alternative \in marker.alternatives :
    /\ Len(alternative) <= Len(prompt)
    /\ IF marker.anchor = "^"
       THEN FoldAll(SubSeq(prompt, 1, Len(alternative))) = alternative
       ELSE SubSeq(prompt, Len(prompt) - Len(alternative) + 1, Len(prompt)) = alternative

\* the loop over followUpMarkers: followUpScore after the markers in `markers`
RECURSIVE followUpScore(_, _)
followUpScore(markers, prompt) ==
  IF markers = <<>> THEN 0
  ELSE (IF test(Head(markers), prompt) THEN 1 ELSE 0) + followUpScore(Tail(markers), prompt)

\* Math.min(followUpScore / followUpMarkers.length, 1), kept as a fraction
Confidence(score, length) == [num |-> Min(score, length), den |-> length]

\* classifyInput that wants two markers before it calls a prompt a follow-up
classifyInputStrict(prompt) ==
  LET score == followUpScore(followUpMarkers, prompt)
  IN [isFollowUp |-> score >= 2, confidence |-> Confidence(score, Len(followUpMarkers))]

classifyInput(prompt) ==
  LET score == followUpScore(followUpMarkers, prompt)
  IN [isFollowUp |-> score >= 1, confidence |-> Confidence(score, Len(followUpMarkers))]

\* classifyInput(prompt) called by POST /enhance
CallClassifyInput(p) ==
  LET r == req[p]
  IN /\ r.route = "classifyInput" /\ r.pc = "call"
     /\ req' = [req EXCEPT ![p].pc = "done", ![p].ret = classifyInput(r.args.prompt)]
     /\ UNCHANGED <<storeVars, ledgerVars, histVars>>

\* ------------------------------------------------------------------------
\* Synopsis service: parseSynopsisResponse
\* ------------------------------------------------------------------------
\* \s of a regular expression and of trim(), as far as the inputs go
Whitespace == {" ", "\t", "\r", "\n"}
\* the line terminators, which `.` does not match
Terminators == {"\n", "\r"}
\* \w
WordChars == LowerCase \o UpperCase \o Digits \o "_"

At(text, i) == SubSeq(text, i, i)
From(text, i) == SubSeq(text, i, Len(text))
IsWord(c) == \E i \in 1..Len(WordChars) : At(WordChars, i) = c

\* text.split('\n')
RECURSIVE Split(_)
Split(text) ==
  IF \A i \in 1..Len(text) : At(text, i) # "\n" THEN <<text>>
  ELSE LET i == CHOOSE j \in 1..Len(text) :
                  At(text, j) = "\n" /\ \A k \in 1..(j - 1) : At(text, k) # "\n"
       IN <<SubSeq(text, 1, i - 1)>> \o Split(From(text, i + 1))

\* text.trim()
RECURSIVE Trim(_)
Trim(text) ==
  IF text = "" THEN ""
  ELSE IF At(text, 1) \in Whitespace THEN Trim(From(text, 2))
  ELSE IF At(text, Len(text)) \in Whitespace THEN Trim(SubSeq(text, 1, Len(text) - 1))
  ELSE text

\* the number of characters \s* takes at the start of text
RECURSIVE SpaceRun(_)
SpaceRun(text) ==
  IF text # "" /\ At(text, 1) \in Whitespace THEN 1 + SpaceRun(From(text, 2)) ELSE 0

\* the number of characters \w+ takes at the start of text
RECURSIVE WordRun(_)
WordRun(text) ==
  IF text # "" /\ IsWord(At(text, 1)) THEN 1 + WordRun(From(text, 2)) ELSE 0

\* line.match(/^[-*]\s*(\w+):\s*(.+)$/i): the two groups, or no match.
\* \s* is greedy but gives characters back until (.+) has one to take; (.+)
\* must reach the end of the line without crossing a line terminator
NoMatch == [matched |-> FALSE, key |-> "", value |-> ""]
Match(line) ==
  LET afterBullet == From(line, 2)
      word == From(afterBullet, SpaceRun(afterBullet) + 1)
      keyLen == WordRun(word)
      afterColon == From(word, keyLen + 2)
      spaces == SpaceRun(afterColon)
      \* the splits \s{k}(.+)$ that match, the longest \s* first
      splits == {k \in 0..spaces :
                   /\ k < Len(afterColon)
                   /\ \A i \in (k + 1)..Len(afterColon) : At(afterColon, i) \notin Terminators}
  IN IF /\ line # "" /\ At(line, 1) \in {"-", "*"}
        /\ keyLen > 0 /\ At(word, keyLen + 1) = ":"
        /\ splits # {}
     THEN LET k == CHOOSE j \in splits : \A i \in splits : i <= j
          IN [matched |-> TRUE, key |-> SubSeq(word, 1, keyLen), value |-> From(afterColon, k + 1)]
     ELSE NoMatch

Scalars == {"goal", "tone", "constraints", "audience", "style"}

\* the body of the loop over the lines, from the synopsis built so far
RECURSIVE parseLines(_, _)
parseLines(lines, synopsis) ==
  IF lines = <<>> THEN synopsis
  ELSE LET match == Match(Head(lines))
           normalizedKey == FoldAll(match.key)
           value == Trim(match.value)
           next == IF ~match.matched THEN synopsis
                   ELSE IF normalizedKey \in Scalars
                        THEN [synopsis EXCEPT ![normalizedKey] = value]
                   ELSE IF normalizedKey = "todos"
                        THEN [synopsis EXCEPT !["todos"] =
                                (IF @ = Absent THEN <<>> ELSE @) \o <<value>>]
                   ELSE synopsis
       IN parseLines(Tail(lines), next)

\* parseSynopsisResponse: response.split('\n').filter(line => line.trim()), then
\* the loop; a key the object was never given is Absent
parseSynopsisResponse(response) ==
  LET kept(line) == Trim(line) # ""
  IN parseLines(SelectSeq(Split(response), kept), [f \in Fields |-> Absent])

\* the synopsis service on a completion: response = content?.trim() || '', then
\* parseSynopsisResponse(response)
CallParseSynopsisResponse(p) ==
  LET r == req[p]
      response == Trim(r.args.content)
  IN /\ r.route = "parseSynopsisResponse" /\ r.pc = "call"
     /\ req' = [req EXCEPT ![p].pc = "done", ![p].ret = parseSynopsisResponse(response)]
     /\ UNCHANGED <<storeVars, ledgerVars, histVars>>

\* the worker hands the parsed synopsis to session.updateSynopsis(newSynopsis)
ThenUpdateSynopsis(p) ==
  LET r == req[p]
  IN /\ r.route = "parseSynopsisResponse" /\ r.pc = "done"
     /\ req' = [req EXCEPT ![p] = Called("updateSynopsis",
                                         [session |-> r.args.session, newSynopsis |-> r.ret,
                                          content |-> r.args.content])]
     /\ UNCHANGED <<storeVars, ledgerVars, histVars>>

\* ------------------------------------------------------------------------
\* Synopsis queue and worker. A job of `queue` is delayed until a slot of the
\* worker takes it, then runs processSynopsisUpdate one await at a time
\* ------------------------------------------------------------------------
Jobs == 1..Len(queue)
Running == {"find", "llm", "save"}
Finished == {"completed", "failed"}
Active == {j \in Jobs : queue[j].state \in Running}

\* s repeated n times
RECURSIVE Rep(_, _)
Rep(s, n) ==
  IF n = 0 THEN ""
  ELSE IF n % 2 = 0 THEN LET half == Rep(s, n \div 2) IN half \o half
  ELSE s \o Rep(s, n - 1)

RECURSIVE Pow2(_)
Pow2(n) == IF n = 0 THEN 1 ELSE 2 * Pow2(n - 1)

\* the job has run to its end: its locals are gone
Settled(job, state) ==
  [job EXCEPT !.state = state, !.attemptsMade = @ + 1,
              !.session = NoDoc, !.newSynopsis = NoSynopsis]

\* Fails that always grants another attempt
FailsRetries(job) ==
  [job EXCEPT !.state = "delayed", !.delay = BackoffDelay,
              !.session = NoDoc, !.newSynopsis = NoSynopsis]

\* processSynopsisUpdate rethrows: with attempts left the job is delayed by
\* the exponential backoff, delay * 2^(attemptsMade - 1); otherwise it fails
Fails(job) ==
  IF job.attemptsMade + 1 < Attempts
  THEN [Settled(job, "delayed") EXCEPT !.delay = BackoffDelay * Pow2(job.attemptsMade)]
  ELSE Settled(job, "failed")

\* the delay of a job has run out and the worker has a free slot for it
Take(j) ==
  /\ j \in Jobs /\ queue[j].state = "delayed"
  /\ Cardinality(Active) < Concurrency
  /\ queue' = [queue EXCEPT ![j].state = "find"]
  /\ UNCHANGED <<sessions, nextSid, prompts, jobs, oauth, req, ledgerVars, histVars>>

\* Session.findById(sessionId), `throw new Error('Session not found')` on null
FindById(j) ==
  /\ j \in Jobs /\ queue[j].state = "find"
  /\ LET job == queue[j]
         session == IF job.sessionId \in SessionIds THEN sessions[job.sessionId] ELSE NoDoc
     IN queue' = [queue EXCEPT ![j] = IF session.id = 0 THEN Fails(job)
                                       ELSE [job EXCEPT !.state = "llm", !.session = session]]
  /\ UNCHANGED <<sessions, nextSid, prompts, jobs, oauth, req, ledgerVars, histVars>>

\* what the synopsis model answers: bullets, or a bullet longer than the schema
\* allows; or the call throws
Bullets == {"- Goal: ship the notes\n- Tone: formal"}
Completions == Bullets \cup {"- Goal: " \o Rep("g", MaxLength + 1)}

\* updateSynopsis(session.synopsis, deltaTurns) of the synopsis service
CallUpdate(j, outcome) ==
  /\ j \in Jobs /\ queue[j].state = "llm"
  /\ LET job == queue[j]
     IN queue' = [queue EXCEPT ![j] =
                    IF outcome = "throws" THEN Fails(job)
                    ELSE [job EXCEPT !.state = "save",
                                     !.newSynopsis = parseSynopsisResponse(Trim(outcome))]]
  /\ UNCHANGED <<sessions, nextSid, prompts, jobs, oauth, req, ledgerVars, histVars>>

\* the maxlength validators of synopsisSchema
Valid(synopsis) ==
  /\ \A f \in Scalars : synopsis[f] # Absent => Len(synopsis[f]) <= MaxLength
  /\ synopsis["todos"] # Absent =>
       \A i \in 1..Len(synopsis["todos"]) : Len(synopsis["todos"][i]) <= MaxLength

\* session.updateSynopsis(newSynopsis): the merge, then this.save(), which
\* validates, then sets the modified paths on the stored document by its _id
\* with the values the job computed; no document left to update is an error
Save(j) ==
  /\ j \in Jobs /\ queue[j].state = "save"
  /\ LET job == queue[j]
         sid == job.sessionId
         merged == updateSynopsis(job.session, job.newSynopsis)
         saved == Valid(merged.synopsis) /\ sessions[sid].id # 0
     IN /\ sessions' = IF saved
                       THEN [sessions EXCEPT ![sid].synopsis = merged.synopsis,
                                             ![sid].synopsisVersion = merged.synopsisVersion]
                       ELSE sessions
        /\ queue' = [queue EXCEPT ![j] = IF saved THEN Settled(job, "completed") ELSE Fails(job)]
  /\ UNCHANGED <<nextSid, prompts, jobs, oauth, req, ledgerVars, histVars>>

\* one step of the worker process, the synopsis model answering from `outcomes`
WorkerWith(outcomes) ==
  \E j \in Jobs :
    \/ Take(j) \/ FindById(j) \/ Save(j)
    \/ \E outcome \in outcomes : CallUpdate(j, outcome)

\* one step of the worker process
Worker == WorkerWith(Completions \cup {"throws"})

\* ------------------------------------------------------------------------
\* Specifications
\* ------------------------------------------------------------------------
LedgerStep(p) ==
  \/ IpGet(p) \/ IpExec(p)
  \/ AnonGet(p) \/ AnonExec(p)
  \/ UserGet(p) \/ UserExec(p)
  \/ LinkExists(p) \/ LinkGet(p) \/ LinkExec(p)

\* two requests racing on the ledger until the address has sent LedgerLoad
NextRace ==
  \E p \in RaceProcs :
    \/ \E ip \in Ips, a \in LedgerAnons, u \in LedgerUsers \cup {None} :
         ipQuota[ip] < LedgerLoad /\ StartLimit(p, ip, a, u)
    \/ \E u \in LedgerUsers, a \in LedgerAnons : StartLink(p, u, a)
    \/ LedgerStep(p)
    \/ Reply(p)

SpecRace == Init /\ [][NextRace]_vars

\* every slot in flight together, a short burst of enhance requests and links
NextFold ==
  \E p \in Procs :
    \/ \E ip \in Ips, a \in LedgerAnons, u \in LedgerUsers \cup {None} :
         ipQuota[ip] < FoldLoad /\ StartLimit(p, ip, a, u)
    \/ \E u \in LedgerUsers, a \in LedgerAnons : StartLink(p, u, a)
    \/ LedgerStep(p)
    \/ Reply(p)

SpecFold == Init /\ [][NextFold]_vars

\* one client issuing its requests one after another
NextSeq ==
  \E p \in SeqProcs :
    \/ \E ip \in Ips, a \in LedgerAnons, u \in LedgerUsers \cup {None} :
         StartLimit(p, ip, a, u)
    \/ \E a \in LedgerAnons, u \in LedgerUsers \cup {None} : getQuotaInfo(p, a, u)
    \/ \E a \in LedgerAnons, token \in LedgerUsers : LinkAnon(p, a, token)
    \/ \E u \in LedgerUsers, a \in LedgerAnons : StartLink(p, u, a)
    \/ LedgerStep(p)
    \/ Reply(p)

SpecSeq == Init /\ [][NextSeq]_vars

\* the steps of the POST /enhance handler, the enhancement service answering
\* from `outcomes` and verification from `verdicts`
HandlerStep(p, outcomes, verdicts) ==
  \/ AutoCreate(p) \/ ContextLookup(p) \/ Persist(p) \/ Enqueue(p)
  \/ \E outcome \in outcomes : CallEnhance(p, outcome)
  \/ \E verdict \in verdicts : VerifyAndPatch(p, verdict)

\* a service that answers with text or throws, and text that passes verification
Plain == {"content", "throws"}

SessionStep(p) ==
  \/ GetPrompts(p)
  \/ DeleteFindOne(p) \/ DeletePrompts(p)
  \/ MergeSave(p) \/ MergePrompts(p)

\* the session routes and POST /enhance, one request after another
NextSession ==
  \E p \in SessionProcs :
    \/ \E a \in Anons, u \in Users \cup {None} :
         \/ CreateSession(p, a, u)
         \/ ListSessions(p, a, u)
         \/ \E sid \in SessionIds :
              \/ GetSession(p, sid, a, u)
              \/ UpdateSession(p, sid, a, u, "t1")
              \/ StartDelete(p, sid, a, u)
              \/ MergeSession(p, sid, a, u)
         \/ \E ip \in Ips, sid \in SessionIds \cup {0}, h \in BOOLEAN, f \in BOOLEAN, c \in BOOLEAN :
              ipQuota[ip] < SessionLoad /\ StartEnhance(p, ip, a, u, sid, h, f, c)
    \/ IpGet(p) \/ IpExec(p) \/ AnonGet(p) \/ AnonExec(p) \/ UserGet(p) \/ UserExec(p)
    \/ HandlerStep(p, Plain, {"valid"})
    \/ SessionStep(p)
    \/ Reply(p)

SpecSession == Init /\ [][NextSession]_vars

\* one client sending POST /enhance until the ledger turns it away: anonymous
\* until it signs in, authenticated from then on, never naming a session
NextEnhance ==
  \E p \in SeqProcs :
    \/ \E ip \in Ips, a \in LedgerAnons, u \in LedgerUsers \cup {None}, h \in BOOLEAN, c \in BOOLEAN :
         /\ u = None => \A v \in Users : expires[v] = 0
         /\ StartEnhance(p, ip, a, u, 0, h, h, c)
    \/ IpGet(p) \/ IpExec(p) \/ AnonGet(p) \/ AnonExec(p) \/ UserGet(p) \/ UserExec(p)
    \/ HandlerStep(p, {"content"}, {"valid"})
    \/ Reply(p)

SpecEnhance == Init /\ [][NextEnhance]_vars

\* one client sending POST /enhance until the ledger turns it away, anonymous
\* until it signs in, with bodies that fail validation among them and an
\* enhancement service that may throw
NextFailures ==
  \E p \in SeqProcs :
    \/ \E ip \in Ips, a \in LedgerAnons, u \in LedgerUsers \cup {None}, valid \in BOOLEAN :
         /\ u = None => \A v \in Users : expires[v] = 0
         /\ StartEnhanceFor(p, [Arrive("enhance", a, u, 0) EXCEPT !.valid = valid], ip,
                            [useHistory |-> FALSE, followUp |-> FALSE, autoCreate |-> FALSE])
    \/ IpGet(p) \/ IpExec(p) \/ AnonGet(p) \/ AnonExec(p) \/ UserGet(p) \/ UserExec(p)
    \/ ZodRejects(p)
    \/ \E outcome \in Plain : CallEnhance(p, outcome)
    \/ VerifyAndPatch(p, "valid")
    \/ Persist(p)
    \/ Reply(p)

SpecFailures == Init /\ [][NextFailures]_vars

\* uuidv4() of the anonId middleware: an id nothing is stored under yet
Fresh(uuid) ==
  /\ anonQuota[uuid] = 0 /\ nth[uuid] = 0
  /\ \A sid \in SessionIds : sessions[sid].anonId # uuid
  /\ \A p \in Procs : req[p].anonId # uuid

\* clients without a session token that send no pe_anon_id cookie
NextCookie ==
  \E p \in SeqProcs :
    \/ \E uuid \in Anons :
         /\ Fresh(uuid)
         /\ \/ CreateSessionFor(p, ArriveNoCookie("create", uuid, None, 0))
            \/ \E ip \in Ips, valid \in BOOLEAN, c \in BOOLEAN :
                 StartEnhanceFor(p, [ArriveNoCookie("enhance", uuid, None, 0) EXCEPT !.valid = valid],
                                 ip, [useHistory |-> FALSE, followUp |-> FALSE, autoCreate |-> c])
    \/ IpGet(p) \/ IpExec(p) \/ AnonGet(p) \/ AnonExec(p)
    \/ ZodRejects(p)
    \/ AutoCreate(p)
    \/ \E outcome \in Plain : CallEnhance(p, outcome)
    \/ VerifyAndPatch(p, "valid")
    \/ Persist(p)
    \/ Reply(p)

SpecCookie == Init /\ [][NextCookie]_vars

\* callbacks that present the state value of one init request, every slot in
\* flight together
NextOAuth ==
  \/ \E p \in Procs :
       \/ \E state \in OAuthStates : OAuthInit(p, state) \/ StartCallback(p, state)
       \/ OAuthGet(p) \/ OAuthDel(p)
       \/ \E outcome \in Exchanges : ExchangeCode(p, outcome)
       \/ Reply(p)
  \/ \E state \in OAuthStates : OAuthExpire(state)

SpecOAuth == Init /\ [][NextOAuth]_vars

\* follow-up requests the owner of a session sends while the worker runs: as
\* many as it takes for jobs to wait for a slot, and fewer where every
\* behaviour of the worker is followed to its end
JobLoad == 3
RetryLoad == 1

\* the owner of a session sending `load` follow-up turns with history and
\* deleting the session, the worker process running beside the server
ServerAndWorker(load) ==
  \/ \E p \in SessionProcs :
       \/ CreateSession(p, "a1", None)
       \/ \E ip \in Ips, sid \in SessionIds :
            ipQuota[ip] < load /\ StartEnhance(p, ip, "a1", None, sid, TRUE, TRUE, FALSE)
       \/ \E sid \in SessionIds : StartDelete(p, sid, "a1", None)
       \/ IpGet(p) \/ IpExec(p) \/ AnonGet(p) \/ AnonExec(p)
       \/ ContextLookup(p) \/ CallEnhance(p, "content") \/ VerifyAndPatch(p, "valid")
       \/ Persist(p) \/ Enqueue(p)
       \/ DeleteFindOne(p) \/ DeletePrompts(p)
       \/ Reply(p)
  \/ Worker

NextWorker == ServerAndWorker(JobLoad)

SpecWorker == Init /\ [][NextWorker]_vars

NextRetry == ServerAndWorker(RetryLoad)

\* the worker process keeps running: a step it can take is taken
SpecRetry == Init /\ [][NextRetry]_vars /\ WF_vars(Worker)

\* enhance requests sent while the context stage is exercised
ContextLoad == 2

\* the lastMessages of a request body: none, or one earlier turn
Histories == {<<>>, <<[role |-> "user", content |-> "hello"]>>}

\* two anonymous clients, one of them the owner of the session, sending POST
\* /enhance with every combination of useHistory, follow-up and
\* autoCreateSession, with and without a session id and earlier turns, while
\* the worker, with a synopsis model that answers in bullets, brings the
\* synopsis of the session up to date
NextHistory ==
  \/ \E p \in SessionProcs :
       \/ CreateSession(p, "a1", None)
       \/ \E ip \in Ips, a \in Anons, sid \in SessionIds \cup {0}, lastMessages \in Histories,
             h \in BOOLEAN, f \in BOOLEAN, c \in BOOLEAN :
            /\ ipQuota[ip] < ContextLoad
            /\ StartEnhanceFor(p, [Arrive("enhance", a, None, sid)
                                     EXCEPT !.lastMessages = lastMessages], ip,
                               [useHistory |-> h, followUp |-> f, autoCreate |-> c])
       \/ IpGet(p) \/ IpExec(p) \/ AnonGet(p) \/ AnonExec(p)
       \/ HandlerStep(p, {"content"}, {"valid"})
       \/ Reply(p)
  \/ WorkerWith(Bullets)

SpecHistory == Init /\ [][NextHistory]_vars

\* completions of the synopsis model: bullets as the prompt asks for them,
\* bullets with nothing but blanks after the colon, lines that are no bullets
Contents ==
  {"- Goal: ship the notes\n- Tone: formal",
   "- Goal: ship the notes\n- Tone: ",
   "- goal:  \n- tone: \t",
   "* TONE: warm \n* Todos: a\n* todos: b",
   "- Tone/Style: formal\n- Audience: devs",
   "Goal: ship\n\n  \n- Style:x",
   "- Goal: ship\r\n- Tone: formal",
   "- Tone:",
   "\n- Goal: \t \n- Audience: devs\n",
   "- Mood: fine\n-Constraints : none\n-  Constraints: short",
   ""}

\* stored sessions the worker has read: synopses as an earlier update left them
SessionsRead ==
  {[synopsis |-> [f \in Fields |-> IF f \in set THEN "kept" ELSE Absent],
    synopsisVersion |-> 1, lastMessageAt |-> "before"] :
     set \in {{}, {"tone"}, {"goal", "tone"}, {"goal", "audience", "style"}}}

InitParse ==
  /\ Empty
  /\ \E content \in Contents, session \in SessionsRead :
       req = [p \in Procs |->
                IF p \in SeqProcs
                THEN Called("parseSynopsisResponse", [content |-> content, session |-> session])
                ELSE Idle]

NextParse ==
  \E p \in SeqProcs :
    CallParseSynopsisResponse(p) \/ ThenUpdateSynopsis(p) \/ CallUpdateSynopsis(p)

SpecParse == InitParse /\ [][NextParse]_vars

\* one client, an enhancement service that may also answer without content, and
\* auxiliary calls (session lookup, job queue, quota link) that may fail
NextService ==
  \E p \in SeqProcs :
    \/ \E ip \in Ips, a \in LedgerAnons, u \in LedgerUsers \cup {None}, sid \in SessionIds \cup {0},
          h \in BOOLEAN, c \in BOOLEAN :
         ipQuota[ip] < SessionLoad /\ StartEnhance(p, ip, a, u, sid, h, h, c)
    \/ \E a \in LedgerAnons : CreateSession(p, a, None)
    \/ IpGet(p) \/ IpExec(p) \/ AnonGet(p) \/ AnonExec(p) \/ UserGet(p) \/ UserExec(p)
    \/ \E u \in LedgerUsers, a \in LedgerAnons : StartLink(p, u, a)
    \/ LinkExists(p) \/ LinkGet(p) \/ LinkExec(p) \/ LinkThrows(p)
    \/ HandlerStep(p, Outcomes, Verdicts)
    \/ ContextFails(p) \/ EnqueueFails(p)
    \/ Reply(p)

SpecService == Init /\ [][NextService]_vars

\* stored synopses and the partial synopses the worker passes in
StoredSynopses == [Fields -> {Absent, "x"}]
PartialSynopses == [Fields -> {Absent, "x", "y"}]
StoredVersions == {0, 1}

InitSynopsis ==
  /\ Empty
  /\ \E synopsis \in StoredSynopses, version \in StoredVersions, newSynopsis \in PartialSynopses :
       req = [p \in Procs |->
                IF p \in SeqProcs
                THEN Called("updateSynopsis",
                            [session |-> [synopsis |-> synopsis, synopsisVersion |-> version,
                                          lastMessageAt |-> "before"],
                             newSynopsis |-> newSynopsis])
                ELSE Idle]

NextSynopsis == \E p \in SeqProcs : CallUpdateSynopsis(p) \/ Reply(p)

SpecSynopsis == InitSynopsis /\ [][NextSynopsis]_vars

\* stored synopses: every scalar field within its maxlength of 120
ContextSynopses ==
  [goal : {"", "ship the release notes", Rep("g", 120)},
   tone : {"", "formal"},
   constraints : {"", "c"},
   audience : {""},
   style : {"", "terse"},
   todos : {<<>>, <<"a">>, <<"ab", "c">>}]

\* recent-turn lists of up to MaxTurns messages: every content has `size`
\* characters (the last one `extra` more) and ends in the position of its message
MaxTurns == 8
ContentSizes == {0, 3, 310, 319, 400}
Extras == 0..5
Turns(n, size, extra) ==
  [i \in 1..n |-> [role |-> IF i % 2 = 1 THEN "user" ELSE "assistant",
                   content |-> Rep("m", size + (IF i = n THEN extra ELSE 0)) \o Str(i)]]

InitContext ==
  /\ Empty
  /\ \E synopsis \in ContextSynopses, n \in 0..MaxTurns, size \in ContentSizes, extra \in Extras :
       req = [p \in Procs |->
                IF p \in SeqProcs
                THEN Called("buildContext",
                            [synopsis |-> synopsis, lastMessages |-> Turns(n, size, extra)])
                ELSE Idle]

NextContext == \E p \in SeqProcs : CallBuildContext(p) \/ Reply(p)

SpecContext == InitContext /\ [][NextContext]_vars

\* prompts: a beginning, a body and an end
Beginnings ==
  UNION {followUpMarkers[i].alternatives : i \in 1..5}
  \cup {"What about", "WHAT ABOUT", "Thanks", "Okay", "However", "Write", "write", "",
         " what about", "nothing", "?", "Not", "So what about"}
Bodies == {"", " a shorter version", " a poem about the sea"}
Endings == {"", "?", ".", "?\n", "? ", "??"}

InitClassify ==
  /\ Empty
  /\ \E beginning \in Beginnings, body \in Bodies, ending \in Endings :
       /\ beginning \o body \o ending # ""
       /\ req = [p \in Procs |->
                   IF p \in SeqProcs
                   THEN Called("classifyInput", [prompt |-> beginning \o body \o ending])
                   ELSE Idle]

NextClassify == \E p \in SeqProcs : CallClassifyInput(p) \/ Reply(p)

SpecClassify == InitClassify /\ [][NextClassify]_vars

\* instants: three consecutive days around the end of 2024 and the leap day,
\* each at midnight, in its first and its last second, and at 23:59:50
Days == {19781, 19782, 20087, 20088, 20089}
Clock == {0, 1, 999, 1000, 37800000, 86390000, 86398999, 86399000, 86399001, 86399500, 86399999}
Instants == [day : Days, ms : Clock]

\* the requests of one anonymous identity over the days, from an empty Redis
InitDays ==
  /\ Empty
  /\ \E date \in Instants :
       req = [p \in Procs |->
                IF p \in SeqProcs
                THEN Called("checkAnonQuota",
                            [redis |-> {}, anonId |-> "a1", date |-> date,
                             last |-> [date |-> date, allowed |-> TRUE, key |-> None]])
                ELSE Idle]

NextDays ==
  \E p \in SeqProcs :
    \/ CallCheckAnonQuota(p)
    \/ \E date \in Instants : NextCheckAnonQuota(p, date)

SpecDays == InitDays /\ [][NextDays]_vars

Next == NextRace \/ NextFold \/ NextSeq \/ NextSession \/ NextEnhance \/ NextService
          \/ NextFailures \/ NextCookie \/ NextOAuth \/ NextParse \/ NextWorker \/ NextRetry \/ NextHistory
          \/ NextSynopsis \/ NextContext \/ NextClassify \/ NextDays
Spec == Init /\ [][Next]_vars

\* ------------------------------------------------------------------------
\* Helpers of the properties
\* ------------------------------------------------------------------------
RECURSIVE SumLinked(_)
SumLinked(log) ==
  IF log = <<>> THEN 0
  ELSE (IF Head(log).linked THEN Head(log).count ELSE 0) + SumLinked(Tail(log))

RECURSIVE SumOver(_, _)
SumOver(f(_), S) ==
  IF S = {} THEN 0
  ELSE LET x == CHOOSE y \in S : TRUE IN f(x) + SumOver(f, S \ {x})

NumLinked(log) == Cardinality({i \in 1..Len(log) : log[i].linked})

FoldedInto(u) ==
  LET perAnon(a) == SumLinked(linkLog[<<u, a>>]) IN SumOver(perAnon, Anons)

\* the link call of slot p has just returned
LinkReturned(p) == req[p].route = "link" /\ req[p].pc = "done"
\* the enhance request of slot p, sent without a session token, was answered
AnonAnswered(p) ==
  req[p].route = "limit" /\ req[p].pc = "done" /\ req[p].userId = None

TypeOK ==
  /\ \A i \in Ips : ipQuota[i] \in Nat
  /\ \A a \in Anons : anonQuota[a] \in Nat
  /\ \A u \in Users : userQuota[u] \in Nat
  /\ linkMarker \subseteq Pairs

\* ------------------------------------------------------------------------
\* Quota ledger and identity linker
\* ------------------------------------------------------------------------

\* C1: of the checkAndIncrement calls racing on one counter exactly `ceiling`
\* are answered allowed=true: never more than the ceiling, and the anonymous
\* check rejects only once the ceiling has been admitted.
C1_ExactlyCeilingAdmitted ==
  /\ \A a \in Anons : admitted[a] <= AnonLimit
  /\ \A u \in Users : admitted[u] <= UserLimit
  /\ \A p \in Procs :
       (req[p].pc = "done" /\ req[p].by = "anon") => admitted[req[p].anonId] >= AnonLimit

\* C2: of the linkAnonQuota calls for one (user, anon, day) at most one returns
\* linked=true and the anonymous count is added to the user's counter at most once.
C2_AtMostOneFold ==
  \A k \in Pairs : NumLinked(linkLog[k]) <= 1 /\ foldCount[k] <= 1

\* C3: the count an identity check reads is at most the ceiling of its kind.
C3_ReadWithinCeiling ==
  \A p \in Procs :
    /\ (req[p].pc \in {"anonExec", "done"} /\ req[p].by = "anon") => req[p].cnt <= AnonLimit
    /\ req[p].pc = "anonExec" => req[p].cnt <= AnonLimit
    /\ (req[p].pc = "done" /\ req[p].by = "user") => req[p].cnt <= UserLimit
    /\ req[p].pc = "userExec" => req[p].cnt <= UserLimit

Returning == {"get", "update", "enhance"}

\* the session documents the request of slot p has been given so far
ReturnedTo(p) ==
  (IF req[p].route \in Returning /\ req[p].doc.id # 0 THEN {req[p].doc} ELSE {})
    \cup (IF req[p].route = "list" THEN req[p].list ELSE {})

\* C8: every stored session has exactly one of its two owner fields set,
\* however and by whomever it was created, and after a merge.
C8_ExactlyOneOwner ==
  \A s \in SessionIds :
    sessions[s].id # 0 => ~((sessions[s].userId # None) <=> (sessions[s].anonId # None))

\* C9: a session created under anonymous id A is given (by get, list, title
\* update or the context lookup of enhance) to an unauthenticated request only
\* if it presents A, and to a request authenticated as U only if the session's
\* userId is U.
C9_AnonSessionOnlyToOwner ==
  \A p \in SessionProcs : \A d \in ReturnedTo(p) :
    /\ req[p].userId = None => req[p].anonId = d.byAnon
    /\ req[p].userId # None => d.userId = req[p].userId

\* a session created by anonymous a1 and since merged into u1 is asked for, by
\* its id, by another user, who is told it does not exist
C9_Witness ==
  \E p \in SessionProcs, s \in SessionIds :
    /\ sessions[s].id # 0 /\ sessions[s].byUser = None
    /\ sessions[s].userId # None
    /\ req[p].route = "get" /\ req[p].pc = "done" /\ req[p].sid = s
    /\ req[p].userId \notin {None, sessions[s].userId}
    /\ req[p].anonId = sessions[s].byAnon
    /\ req[p].status = "404"

\* C10: a request without a session token is never given, and never updates
\* or deletes, a session whose userId is set.
C10_UserSessionHiddenFromAnon ==
  \A p \in SessionProcs :
    req[p].userId = None =>
      /\ \A d \in ReturnedTo(p) : d.userId = None
      /\ req[p].route = "delete" => req[p].doc.userId = None

\* ------------------------------------------------------------------------
\* Session store: merge
\* ------------------------------------------------------------------------
\* the merge request of slot p has been answered with success
Merged(p) == req[p].route = "merge" /\ req[p].pc = "done" /\ req[p].status = "200"

\* the turn records of session sid
PromptsIn(sid) == {i \in 1..Len(prompts) : prompts[i].sessionId = sid}

\* C11: when a merge of session S, presented with anonymous id A by user U, has
\* succeeded, S has userId U and no anonId, every turn of S has userId U, and
\* the history of U holds every turn created in S under A.
C11_MergeTransfersAll ==
  \A p \in SessionProcs :
    Merged(p) =>
      LET r == req[p]
      IN /\ sessions[r.sid].id # 0
         /\ sessions[r.sid].userId = r.userId
         /\ sessions[r.sid].anonId = None
         /\ \A i \in PromptsIn(r.sid) : prompts[i].userId = r.userId
         /\ {i \in PromptsIn(r.sid) : prompts[i].byAnon = r.anonId /\ prompts[i].byUser = None}
              \subseteq getUserHistory(r.userId)

C11_Witness ==
  \E p \in SessionProcs :
    /\ Merged(p)
    /\ sessions[req[p].sid].byUser = None
    /\ \E i \in PromptsIn(req[p].sid) :
         /\ prompts[i].byAnon = req[p].anonId /\ prompts[i].byUser = None
         /\ prompts[i].userId = req[p].userId

C13_OwnerChangesOnce ==
  [][\A s \in SessionIds :
       (sessions[s].id # 0 /\ sessions'[s].id # 0) =>
         /\ sessions[s].userId # None => sessions'[s].userId = sessions[s].userId
         /\ sessions[s].anonId = None => sessions'[s].anonId = None
         /\ <<sessions'[s].userId, sessions'[s].anonId>> # <<sessions[s].userId, sessions[s].anonId>>
              => \E p \in SessionProcs : req[p].pc = "mergeSave" /\ req[p].sid = s]_vars

\* C14: once the merge of an anonymous session into user U has completed,
\* every turn record of that session has userId U, whatever requests follow.
C14_TurnsFollowSession ==
  \A s \in SessionIds :
    ( /\ sessions[s].id # 0
      /\ sessions[s].byUser = None /\ sessions[s].userId # None
      /\ \A p \in SessionProcs : ~(req[p].pc = "mergePrompts" /\ req[p].sid = s) )
    => \A i \in PromptsIn(s) : prompts[i].userId = sessions[s].userId

\* ------------------------------------------------------------------------
\* Quota ledger: order and frame of the checks
\* ------------------------------------------------------------------------
\* the counters of the ledger with their expiries
counters == <<ipQuota, anonQuota, userQuota, expires>>

\* C15: the address counter is tested first, against 30 without a session
\* token and 60 with one; a request it rejects is answered at once, and the
\* identity counters are read and incremented only for requests it let through.
C15_IpCheckedFirst ==
  [][\A p \in SeqProcs :
       /\ req[p].pc = "ipGet" =>
            LET full == ipQuota[req[p].ip] >= (IF req[p].userId # None THEN IpLimitAuth ELSE IpLimitAnon)
            IN /\ full => (req'[p].pc = "done" /\ req'[p].status = "429" /\ req'[p].by = "ip")
               /\ ~full => req'[p].pc = "ipExec"
               /\ UNCHANGED counters
       /\ req'[p].pc \in {"anonGet", "userGet"} =>
            (req[p].pc = "ipExec" /\ ipQuota'[req[p].ip] = ipQuota[req[p].ip] + 1)
       /\ (anonQuota' # anonQuota \/ (userQuota' # userQuota /\ req[p].route = "limit")) =>
            (req[p].pc \in {"anonExec", "userExec"} /\ req[p].by = "none")]_vars

\* an authenticated request is turned away by the address counter at 60 while
\* its user counter stays where it was
C15_Witness ==
  \E p \in SeqProcs :
    /\ req[p].route = "limit" /\ req[p].pc = "done" /\ req[p].by = "ip"
    /\ req[p].userId # None /\ req[p].cnt = IpLimitAuth
    /\ userQuota[req[p].userId] = admitted[req[p].userId]

\* the ceiling test of slot p finds its counter at or above the ceiling
AtCeiling(p) ==
  \/ req[p].pc = "ipGet" /\ ipQuota[req[p].ip] >= ipLimit(req[p].userId)
  \/ req[p].pc = "anonGet" /\ anonQuota[req[p].anonId] >= AnonLimit
  \/ req[p].pc = "userGet" /\ userQuota[req[p].userId] >= UserLimit

\* C16: a check that finds its counter at or above the ceiling answers
\* allowed=false with remaining 0 and changes neither the value nor the
\* expiry of any counter; a usage snapshot changes none either.
C16_RejectionReadOnly ==
  [][\A p \in SeqProcs :
       /\ AtCeiling(p) =>
            /\ req'[p].pc = "done" /\ req'[p].status = "429" /\ req'[p].remaining = 0
            /\ UNCHANGED <<counters, linkMarker>>
       /\ (req[p].status # "429" /\ req'[p].status = "429") => AtCeiling(p)
       /\ (req[p].pc = "idle" /\ req'[p].route = "usage") =>
            /\ UNCHANGED <<counters, linkMarker>>
            /\ req'[p].cnt = (IF req'[p].userId # None THEN userQuota[req'[p].userId]
                               ELSE anonQuota[req'[p].anonId])]_vars

\* the user check has just rejected at the ceiling: value and expiry stand
\* where the twentieth admission left them
C16_Witness ==
  \E p \in SeqProcs :
    /\ req[p].route = "limit" /\ req[p].pc = "done" /\ req[p].by = "user"
    /\ req[p].status = "429" /\ req[p].remaining = 0
    /\ userQuota[req[p].userId] = UserLimit /\ expires[req[p].userId] = UserLimit

\* C17: no step of linkAnonQuota changes the anonymous counter or its expiry,
\* and a call that finds the marker returns {linked: false, count: 0} having
\* changed no counter at all.
C17_LinkLeavesAnonCounter ==
  [][\A p \in Procs :
       (req[p].route = "link" /\ req'[p] # req[p] /\ req[p].pc # "done") =>
         /\ anonQuota' = anonQuota /\ ipQuota' = ipQuota
         /\ \A k \in Ips \cup Anons : expires'[k] = expires[k]
         /\ (req[p].pc = "linkExists" /\ <<req[p].userId, req[p].anonId>> \in linkMarker) =>
              /\ UNCHANGED <<counters, linkMarker>>
              /\ req'[p].pc = "done" /\ ~req'[p].linked /\ req'[p].cnt = 0]_vars

\* a link call has returned {false, 0} on an existing marker while the
\* anonymous counter it folded earlier is still there
C17_Witness ==
  \E p \in Procs :
    /\ LinkReturned(p) /\ ~req[p].linked
    /\ <<req[p].userId, req[p].anonId>> \in linkMarker
    /\ anonQuota[req[p].anonId] > 0
    /\ expires[req[p].anonId] = anonQuota[req[p].anonId]

\* ------------------------------------------------------------------------
\* POST /enhance: rejection and failure
\* ------------------------------------------------------------------------
\* the positions of a request inside the POST /enhance handler
InHandler == {"autoCreate", "ctx", "llm", "verify", "persist", "enqueue"}

\* C18: an enhance request the ledger rejects is answered 429 with
\* retryAfter "tomorrow" and remaining 0 by the check that rejected it; it
\* never enters the handler, so no session is created for it, the enhancement
\* service is not called, no turn is stored and no job is enqueued.
C18_RejectedBeforeHandler ==
  [][\A p \in SeqProcs :
       /\ (req[p].status # "429" /\ req'[p].status = "429") =>
            /\ req[p].pc \in {"ipGet", "anonGet", "userGet"}
            /\ req'[p].pc = "done"
            /\ req'[p].retryAfter = "tomorrow" /\ req'[p].remaining = 0
            /\ req'[p].llm = None /\ req'[p].sid = req[p].sid
            /\ UNCHANGED storeVars
       /\ req[p].status = "429" =>
            /\ req'[p] \in {req[p], Idle}
            /\ UNCHANGED storeVars
       /\ req'[p].pc \in InHandler => req'[p].status = "next"]_vars

\* the eleventh request of an anonymous client asks for a session to be
\* created and is turned away: ten turns stored, no session
C18_Witness ==
  \E p \in SeqProcs :
    /\ req[p].route = "enhance" /\ req[p].pc = "done" /\ req[p].status = "429"
    /\ req[p].by = "anon" /\ req[p].autoCreate
    /\ nextSid = 1 /\ Len(prompts) = AnonLimit

\* C19: a POST /auth/link-anon request that carries a user's session token is
\* served like the link at login: it is answered with success, reporting the
\* anonymous count when it folded it, and afterwards the pair is marked as
\* linked unless there was nothing to link.
C19_LinkRequestLinks ==
  \A p \in SeqProcs :
    (req[p].route = "link-anon" /\ req[p].pc = "done" /\ req[p].token # None) =>
      /\ req[p].status = "200"
      /\ req[p].linked => req[p].cnt = anonQuota[req[p].anonId]
      /\ anonQuota[req[p].anonId] > 0 => <<req[p].token, req[p].anonId>> \in linkMarker

\* C20: a request whose enhancement call threw or came back without content
\* is answered 500; no stored turn and no successful answer carries the
\* original prompt as its enhancement.
C20_FailedCallFailsRequest ==
  /\ \A p \in SeqProcs :
       /\ req[p].llm \in {"empty", "throws"} => (req[p].pc = "done" /\ req[p].status = "500")
       /\ (req[p].pc = "done" /\ req[p].status = "200") => req[p].enhanced # "original"
  /\ \A i \in 1..Len(prompts) : prompts[i].enhanced # "original"
\* ------------------------------------------------------------------------
\* POST /enhance: verification, repair and auxiliary failures
\* ------------------------------------------------------------------------
\* enhancement.enhancedPrompt: the text the enhancement call handed to the handler
Unrepaired(r) == IF r.llm = "content" THEN "enhanced" ELSE "original"

\* the turn record written last
LastTurn == prompts[Len(prompts)]

\* C21: a request whose enhanced text went through verification is never
\* answered with an error: whatever the verdict it is answered 200; when the
\* repair pass failed its text is still the unrepaired enhanced text, when the
\* repair succeeded it is the repaired text, and that text is the one in the
\* turn record the request persisted.
C21_VerificationNeverFails ==
  \A p \in SeqProcs :
    LET r == req[p]
    IN (r.route = "enhance" /\ r.verdict # None) =>
         /\ r.pc \in {"persist", "enqueue", "done"}
         /\ r.pc = "done" => r.status = "200"
         /\ r.verdict \in {"valid", "unpatched"} => r.enhanced = Unrepaired(r)
         /\ r.verdict = "patched" => r.enhanced = "patched"
         /\ r.pc \in {"enqueue", "done"} =>
              /\ Len(prompts) > 0
              /\ LastTurn.enhanced = r.enhanced
              /\ LastTurn.sessionId = r.sid

\* a request whose repair pass failed has been answered 200 with the text the
\* enhancement call returned, and that text is in its turn record
C21_Witness ==
  \E p \in SeqProcs :
    /\ req[p].route = "enhance" /\ req[p].pc = "done" /\ req[p].status = "200"
    /\ req[p].verdict = "unpatched" /\ req[p].llm = "content"
    /\ req[p].enhanced = "enhanced"
    /\ Len(prompts) > 0 /\ LastTurn.enhanced = "enhanced"

\* C22: a failed auxiliary call never changes the answer of the request that
\* made it: an enhance request whose session auto-creation, session lookup or
\* job enqueue failed is answered 200 with its turn persisted unless the
\* enhancement call itself threw, and a signup, login or OAuth callback whose
\* linkAnonQuota call threw still sends its success response.
C22_AuxiliaryFailuresTolerated ==
  \A p \in SeqProcs :
    LET r == req[p]
    IN /\ (r.route = "enhance" /\ r.aux # {} /\ r.pc = "done") =>
            IF r.llm = "throws" THEN r.status = "500"
            ELSE /\ r.status = "200"
                 /\ Len(prompts) > 0
                 /\ LastTurn.sessionId = r.sid
                 /\ LastTurn.userId = r.userId
                 /\ LastTurn.enhanced = r.enhanced
       /\ (r.route = "link" /\ r.pc = "done") => r.status = "ok"

\* a follow-up whose enqueue failed after its session was found has been
\* answered 200 and its turn is in the store
C22_Witness ==
  \E p \in SeqProcs :
    /\ req[p].route = "enhance" /\ req[p].pc = "done" /\ req[p].status = "200"
    /\ req[p].aux = {"enqueue"} /\ req[p].doc.id # 0
    /\ Len(prompts) > 0 /\ LastTurn.sessionId = req[p].sid

\* a call of linkAnonQuota threw and its handler answered with success
C22_LinkWitness ==
  \E p \in SeqProcs :
    req[p].route = "link" /\ req[p].pc = "done" /\ req[p].aux = {"link"} /\ req[p].status = "ok"

\* ------------------------------------------------------------------------
\* Session store: not-found answers and deletion
\* ------------------------------------------------------------------------
\* what res.json sends: the 200 body is built from the session document and
\* the turn count, every other body is a fixed error message
Response(r) ==
  IF r.status = "200" THEN [status |-> "200", doc |-> r.doc, cnt |-> r.cnt]
  ELSE [status |-> r.status, doc |-> NoDoc, cnt |-> 0]

\* the answer of the request in r when no session has the id it names:
\* requireAuth answers merge without a token, the lookup answers the rest
NotFound(r) ==
  [status |-> IF r.route = "merge" /\ r.userId = None THEN "401" ELSE "404",
   doc |-> NoDoc, cnt |-> 0]

\* neither the user nor the anonymous id that r presents is stored on session sid
Stranger(r, sid) ==
  /\ sessions[sid].id # 0
  /\ r.userId = None \/ sessions[sid].userId # r.userId
  /\ sessions[sid].anonId # r.anonId

ById == {"get", "update", "delete", "merge"}

Deleted(sid) ==
  /\ sid < nextSid
  /\ sessions[sid].id = 0
  /\ \A p \in SessionProcs : req[p].route = "delete" => req[p].pc = "done"

\* C24: once the owner's delete of a session has succeeded, the store holds
\* neither the session nor any turn record with its session id, in every later
\* state (no session is created after it: the collection hands out each id once).
C24_DeleteCascades ==
  \A sid \in SessionIds : Deleted(sid) => NumPrompts(sid) = 0

Built(p) == req[p].route = "buildContext" /\ req[p].pc = "done"

\* C26: the context buildContext returns is never longer than 2000 characters
\* plus the marker: it is the whole rendered text when that has at most 2000
\* characters, and otherwise the first 2000 characters of the rendered text
\* followed by the marker.
C26_ContextWithinBudget ==
  \A p \in SeqProcs :
    Built(p) =>
      LET full == Rendered(req[p].args.synopsis, req[p].args.lastMessages)
          context == req[p].ret.context
      IN /\ Len(context) <= 2000 + Len(Marker)
         /\ Len(full) <= 2000 => context = full
         /\ Len(full) > 2000 =>
              /\ Len(context) = 2000 + Len(Marker)
              /\ SubSeq(context, 1, 2000) = SubSeq(full, 1, 2000)
              /\ SubSeq(context, 2001, Len(context)) = Marker

\* a rendered text of 2001 characters came back cut to 2000 plus the marker
C26_Witness ==
  \E p \in SeqProcs :
    /\ Built(p)
    /\ Len(Rendered(req[p].args.synopsis, req[p].args.lastMessages)) = 2001
    /\ Len(req[p].ret.context) = 2003

\* a rendered text of exactly 2000 characters came back whole
C26_WitnessWhole ==
  \E p \in SeqProcs :
    /\ Built(p)
    /\ Len(Rendered(req[p].args.synopsis, req[p].args.lastMessages)) = 2000
    /\ Len(req[p].ret.context) = 2000

\* C27: buildContext renders the trailing 6 entries of the recent-turn list and
\* no other, reports lastTurns = min(length of the list, 6) and synopsisChars =
\* the characters of the synopsis values it rendered (labels and line breaks
\* not counted, the to-dos counted as joined), and both reports are what they
\* are for the same input whether or not the context was cut.
C27_TrailingTurnsReported ==
  \A p \in SeqProcs :
    Built(p) =>
      LET synopsis == req[p].args.synopsis
          turns == req[p].args.lastMessages
          n == Len(turns)
          used == req[p].ret.contextUsed
          last(k) == SubSeq(turns, n - k + 1, n)
          values == <<synopsis.goal, synopsis.tone, synopsis.constraints, synopsis.audience,
                      synopsis.style, Join(synopsis.todos, ", ")>>
          valueChars == Len(values[1]) + Len(values[2]) + Len(values[3]) + Len(values[4])
                        + Len(values[5]) + Len(values[6])
          block == IF synopsisParts(synopsis) = <<>> THEN ""
                   ELSE "Session Context:\n" \o Join(synopsisParts(synopsis), "\n")
          conversation == IF n = 0 THEN ""
                          ELSE "Recent conversation:\n"
                               \o Join(messageLines(last(Min(n, 6))), "\n")
          blank == IF block # "" /\ conversation # "" THEN "\n\n" ELSE ""
      IN /\ used.lastTurns = Min(n, 6)
         /\ used.synopsisChars = valueChars
         /\ Rendered(synopsis, turns) = block \o blank \o conversation

\* eight turns were passed, the context was cut, and the report says six turns
\* and the full size of the synopsis values
C27_Witness ==
  \E p \in SeqProcs :
    /\ Built(p)
    /\ Len(req[p].args.lastMessages) = 8
    /\ Len(Rendered(req[p].args.synopsis, req[p].args.lastMessages)) > 2000
    /\ req[p].ret.contextUsed.lastTurns = 6
    /\ req[p].args.synopsis.goal # "" /\ Len(req[p].args.synopsis.todos) = 2
    /\ req[p].ret.contextUsed.synopsisChars > 0

\* ------------------------------------------------------------------------
\* Input classifier
\* ------------------------------------------------------------------------
\* the marker categories that match the prompt
Matching(prompt) == {i \in 1..Len(followUpMarkers) : test(followUpMarkers[i], prompt)}

\* C28: classify(prompt) answers isFollowUp = true exactly when at least one
\* marker category matches the prompt, and confidence = categories matched /
\* categories in all, which lies in [0, 1] and is 0 exactly when isFollowUp is
\* false; "What about a shorter version?" is a follow-up and "Write a poem
\* about the sea" is not.
C28_FollowUpIffMarker ==
  \A p \in SeqProcs :
    (req[p].route = "classifyInput" /\ req[p].pc = "done") =>
      LET prompt == req[p].args.prompt
          ret == req[p].ret
          matched == Cardinality(Matching(prompt))
      IN /\ ret.isFollowUp <=> matched >= 1
         /\ ret.confidence.num = matched
         /\ ret.confidence.den = Len(followUpMarkers)
         /\ 0 <= ret.confidence.num /\ ret.confidence.num <= ret.confidence.den
         /\ ret.confidence.num = 0 <=> ~ret.isFollowUp
         /\ prompt = "What about a shorter version?" => ret.isFollowUp
         /\ prompt = "Write a poem about the sea" => ~ret.isFollowUp

\* "What about a shorter version?" was classified: two of the six categories
C28_Witness ==
  \E p \in SeqProcs :
    /\ req[p].route = "classifyInput" /\ req[p].pc = "done"
    /\ req[p].args.prompt = "What about a shorter version?"
    /\ req[p].ret.isFollowUp
    /\ req[p].ret.confidence = [num |-> 2, den |-> 6]

\* "Write a poem about the sea" was classified as standalone
C28_WitnessStandalone ==
  \E p \in SeqProcs :
    /\ req[p].route = "classifyInput" /\ req[p].pc = "done"
    /\ req[p].args.prompt = "Write a poem about the sea"
    /\ ~req[p].ret.isFollowUp
    /\ req[p].ret.confidence.num = 0

\* ------------------------------------------------------------------------
\* Day keys and expiry
\* ------------------------------------------------------------------------
\* the checkAnonQuota call of slot p has returned
Checked(p) == req[p].route = "checkAnonQuota" /\ req[p].pc = "done"

\* C29: the TTL given to a counter written at instant t is the number of whole
\* seconds left until the next UTC midnight and lies strictly between 0 and
\* 86400; a key written at 23:59:50 expires within 10 seconds, and no key
\* lives past the midnight that ends the day of its write.
C29_TtlWithinDay ==
  \A p \in SeqProcs :
    (Checked(p) /\ req[p].ret.written) =>
      LET date == req[p].args.date
          ttl == req[p].ret.ttl
          left == MsPerDay - date.ms
      IN /\ ttl * 1000 <= left /\ left < (ttl + 1) * 1000
         /\ 0 < ttl /\ ttl < 86400
         /\ date.ms = 86390000 => ttl <= 10
         /\ ~Earlier(NextMidnight(date), After(date, ttl))

\* C30: the counter keys of one identity at two instants are equal exactly
\* when the instants fall on the same UTC date, the key ending in that date as
\* YYYYMMDD; and an identity that was turned away on one day is admitted by
\* its first check on a later day, with remaining = ceiling - 1.
C30_KeyPerUtcDay ==
  /\ \A p \in SeqProcs :
       Checked(p) =>
         LET last == req[p].args.last
             date == req[p].args.date
             ret == req[p].ret
         IN /\ Len(getDayKey(date)) = 8
            /\ date = [day |-> 19782, ms |-> 0] => getDayKey(date) = "20240229"
            /\ date = [day |-> 20088, ms |-> 86399000] => getDayKey(date) = "20241231"
            /\ last.key # None => ((ret.key = last.key) <=> (date.day = last.date.day))
            /\ (~last.allowed /\ date.day > last.date.day) =>
                 (ret.allowed /\ ret.remaining = AnonLimit - 1)

\* the identity was turned away on 31 December and its check on 1 January was
\* admitted with nine left
C30_Witness ==
  \E p \in SeqProcs :
    /\ Checked(p)
    /\ ~req[p].args.last.allowed
    /\ getDayKey(req[p].args.last.date) = "20241231"
    /\ getDayKey(req[p].args.date) = "20250101"
    /\ req[p].ret.allowed /\ req[p].ret.remaining = AnonLimit - 1

\* a counter was written in the last second of a day, with a TTL of zero
C29_ZeroTtl ==
  \E p \in SeqProcs : Checked(p) /\ req[p].ret.written /\ req[p].ret.ttl = 0

\* ------------------------------------------------------------------------
\* Session store: requests of an identity that does not own the session
\* ------------------------------------------------------------------------
\* the delete request of slot p is under way
Deleting(p) == req[p].route = "delete" /\ req[p].pc \in {"delBoth", "delSession", "delPrompts"}

\* C33: no step of a delete request for a session on which neither of the
\* requester's identities is stored changes the session or a turn record, and
\* the request is answered not-found.
C33_StrangerDeleteChangesNothing ==
  [][\A p \in SessionProcs :
       (Deleting(p) /\ Stranger(req[p], req[p].sid)) =>
         /\ sessions' = sessions
         /\ prompts' = prompts
         /\ req'[p].pc = "done" => req'[p].status = "404"]_vars


\* C34: the Prompt.createPrompt of an enhance request that names a session on
\* which neither of the requester's identities is stored adds no turn record
\* with that session id, so every turn of a session comes from an owner.
C34_StrangerTurnNotAttached ==
  [][\A p \in SessionProcs :
       (req[p].pc = "persist" /\ req[p].sid \in SessionIds /\ Stranger(req[p], req[p].sid)) =>
         \A i \in 1..Len(prompts') :
           i > Len(prompts) => prompts'[i].sessionId # req[p].sid]_vars


\* ------------------------------------------------------------------------
\* Quota ledger: increments of requests that are rejected or fail
\* ------------------------------------------------------------------------
\* the enhance request of slot p has been answered
Answered(p) == req[p].route = "enhance" /\ req[p].pc = "done"

C38_WitnessRejected ==
  \E p \in SeqProcs :
    /\ Answered(p) /\ req[p].status = "429" /\ req[p].by = "anon"
    /\ ipQuota[req[p].ip] = AnonLimit + 1 /\ anonQuota[req[p].anonId] = AnonLimit

\* the enhancement call of a user's first request threw: both counters hold its
\* increment
C38_WitnessFailed ==
  \E p \in SeqProcs :
    /\ Answered(p) /\ req[p].status = "500" /\ req[p].llm = "throws" /\ req[p].userId # None
    /\ ipQuota[req[p].ip] = 1 /\ userQuota[req[p].userId] = 1


\* ------------------------------------------------------------------------
\* Anonymous identity: the cookie
\* ------------------------------------------------------------------------
\* state the server keeps under the anonymous id a
StoredUnder(a) ==
  \/ anonQuota[a] > 0
  \/ \E sid \in SessionIds : sessions[sid].id # 0 /\ sessions[sid].anonId = a

\* C39: when a request without a session token and without an anonymous-id
\* cookie has been answered and the server keeps a counter or a session under
\* the id generated for it, the response sets the cookie to that id.
C39_GeneratedIdDelivered ==
  \A p \in SeqProcs :
    (req[p].pc = "done" /\ req[p].cookie = None /\ req[p].userId = None
       /\ req[p].anonId # None /\ StoredUnder(req[p].anonId)) =>
      req[p].setCookie = req[p].anonId

\* an enhance request without a cookie succeeded and was handed its id
C39_Delivered ==
  \E p \in SeqProcs :
    /\ Answered(p) /\ req[p].status = "200" /\ req[p].cookie = None
    /\ req[p].setCookie = req[p].anonId /\ anonQuota[req[p].anonId] = 1


\* ------------------------------------------------------------------------
\* Google OAuth: single use of the state
\* ------------------------------------------------------------------------
\* C40: of the getOAuthState calls for one stored state value at most one
\* returns the stored data; the others return null.
C40_StateSingleUse ==
  \A state \in OAuthStates : oauth[state].returned <= 1


\* ------------------------------------------------------------------------
\* Synopsis queue and worker
\* ------------------------------------------------------------------------
\* the ownership-filtered lookup finds session sid for the request r
Owns(r, sid) == sid \in SessionIds /\ findOne(sid, OwnerQuery(r)).id # 0

\* C32: the step that answers a follow-up enhance request successfully, when
\* the request carries the id of a session of the requester, is the one that
\* adds a synopsis job for that session to the queue, and the turn of the
\* request was stored before it.
C32_FollowUpSchedulesJob ==
  [][\A p \in SessionProcs :
       LET r == req[p]
       IN (r.route = "enhance" /\ r.pc # "done" /\ req'[p].pc = "done"
             /\ req'[p].status = "200" /\ r.followUp /\ Owns(r, r.sid)) =>
            /\ r.pc = "enqueue"
            /\ jobs'[r.sid] = jobs[r.sid] + 1
            /\ prompts' = prompts
            /\ Len(prompts) > 0 /\ prompts[Len(prompts)].sessionId = r.sid]_vars


\* the synopsis worker has parsed a completion and merged it into the session
Updated(p) == req[p].route = "updateSynopsis" /\ req[p].pc = "done"

\* C36: a field that the parsed synopsis carries with an empty value keeps, in
\* the merged synopsis, the non-empty value the session had stored.
C36_EmptyValueKeepsStored ==
  \A p \in SeqProcs :
    Updated(p) =>
      \A f \in Scalars :
        (req[p].args.newSynopsis[f] = "" /\ req[p].args.session.synopsis[f] \notin {Absent, ""}) =>
          req[p].ret.synopsis[f] = req[p].args.session.synopsis[f]

\* what the parser makes of the completions
C36_Parsed ==
  /\ parseSynopsisResponse("- Goal: ship the notes\n- Tone: formal")
       = [f \in Fields |-> IF f = "goal" THEN "ship the notes"
                           ELSE IF f = "tone" THEN "formal" ELSE Absent]
  /\ parseSynopsisResponse("- Goal: ship the notes\n- Tone: ")["tone"] = ""
  /\ parseSynopsisResponse("- Tone:")["tone"] = Absent
  /\ parseSynopsisResponse("* TONE: warm \n* Todos: a\n* todos: b")
       = [f \in Fields |-> IF f = "tone" THEN "warm"
                           ELSE IF f = "todos" THEN <<"a", "b">> ELSE Absent]
  /\ parseSynopsisResponse("- Tone/Style: formal\n- Audience: devs")
       = [f \in Fields |-> IF f = "audience" THEN "devs" ELSE Absent]
  /\ parseSynopsisResponse("Goal: ship\n\n  \n- Style:x")
       = [f \in Fields |-> IF f = "style" THEN "x" ELSE Absent]
  /\ parseSynopsisResponse("- Goal: ship\r\n- Tone: formal")
       = [f \in Fields |-> IF f = "tone" THEN "formal" ELSE Absent]
  /\ parseSynopsisResponse("- Mood: fine\n-Constraints : none\n-  Constraints: short")
       = [f \in Fields |-> IF f = "constraints" THEN "short" ELSE Absent]


\* C35: no step lowers the synopsisVersion of a session that stays stored,
\* however the jobs of the worker interleave.
C35_VersionNeverDecreases ==
  [][\A s \in SessionIds :
       (sessions[s].id # 0 /\ sessions'[s].id # 0) =>
         sessions'[s].synopsisVersion >= sessions[s].synopsisVersion]_vars


\* C31: every synopsis job eventually completes or fails for good, a job
\* whose session was deleted included; a job makes at most 3 attempts, fails
\* for good only at the third, and waits 2000, then 4000 between attempts.
C31_JobsEnd ==
  /\ [](\A j \in Jobs :
          /\ queue[j].attemptsMade <= Attempts
          /\ queue[j].state = "failed" => queue[j].attemptsMade = Attempts
          /\ queue[j].state \in Running \cup {"delayed"} => queue[j].attemptsMade < Attempts
          /\ queue[j].delay = IF queue[j].attemptsMade \in {0, Attempts} \/ queue[j].state = "completed"
                              THEN queue[j].delay
                              ELSE BackoffDelay * Pow2(queue[j].attemptsMade - 1)
          /\ queue[j].delay \in {JobDelay, 2000, 4000})
  /\ \A j \in 1..RetryLoad : [](j \in Jobs => <>(j \in Jobs /\ queue[j].state \in Finished))

\* a job of a deleted session has failed for good at its third attempt
C31_Witness ==
  \E j \in Jobs :
    /\ queue[j].state = "failed" /\ queue[j].attemptsMade = Attempts /\ queue[j].delay = 4000
    /\ sessions[queue[j].sessionId].id = 0

\* a job has completed at its third attempt
C31_WitnessRetried ==
  \E j \in Jobs : queue[j].state = "completed" /\ queue[j].attemptsMade = Attempts


NoContextUsed == [lastTurns |-> 0, synopsisChars |-> 0]

\* the request has passed the context stage of POST /enhance
PastContext(p) ==
  req[p].route = "enhance" /\ req[p].pc \in {"llm", "verify", "persist", "enqueue", "done"}

\* the session the request holds is the one its session id names, and the
\* requesting identity is its owner
Resolved(r) ==
  /\ r.sid # 0 /\ r.doc.id = r.sid
  /\ IF r.userId # None THEN r.doc.userId = r.userId ELSE r.doc.anonId = r.anonId

\* C37: an enhance request passes a context to the enhancement service or
\* reports a non-zero contextUsed only with useHistory set, a follow-up prompt
\* and a session id resolved by the lookup filtered on the requesting identity;
\* in every other case it passes no context and contextUsed is {0, 0}.
C37_ContextOnlyForOwnedHistory ==
  \A p \in SessionProcs :
    PastContext(p) =>
      /\ (req[p].context # None \/ req[p].contextUsed # NoContextUsed) =>
           req[p].useHistory /\ req[p].followUp /\ Resolved(req[p])
      /\ ~(req[p].useHistory /\ req[p].followUp /\ Resolved(req[p])) =>
           req[p].context = None /\ req[p].contextUsed = NoContextUsed

\* the owner's follow-up has been answered from the synopsis the worker wrote
\* and the earlier turn of the request
C37_Witness ==
  \E p \in SessionProcs :
    /\ PastContext(p) /\ req[p].pc = "done" /\ req[p].status = "200"
    /\ req[p].context # None
    /\ req[p].contextUsed.lastTurns = 1 /\ req[p].contextUsed.synopsisChars > 0

\* a stranger's follow-up with history on the session has been answered
C37_WitnessStranger ==
  \E p \in SessionProcs :
    /\ PastContext(p) /\ req[p].pc = "done" /\ req[p].status = "200"
    /\ req[p].useHistory /\ req[p].followUp /\ req[p].sid \in SessionIds
    /\ sessions[req[p].sid].id # 0 /\ sessions[req[p].sid].anonId # req[p].anonId
    /\ req[p].lastMessages # <<>>
    /\ req[p].context = None


====
